---- MODULE Spec2Model ----
(***************************************************************************)
(* Model of the coordination layer of the Smart Personal Task Manager      *)
(* (src/agent.py): the ObservabilityTracker event log and the A2AProtocol  *)
(* message bus with its processing loop, and the                           *)
(* SequentialAgentOrchestrator workflow, and the task store kept in the    *)
(* JSON file tasks_db.json with the tools that load, change and save it,   *)
(* and the reads of the event log: get_events and the metrics summaries.   *)
(*                                                                         *)
(* Scheduling: asyncio, one cooperative scheduler.  A step of the model is *)
(* the code a task runs between two suspension points.  The suspension     *)
(* points of the bus are the wait on the queue (agent.py:128) and whatever *)
(* the invoked handler awaits (agent.py:136).  send_message does not       *)
(* suspend: the queue is unbounded, so put() returns at once.              *)
(***************************************************************************)
EXTENDS Integers, Sequences, FiniteSets, TLC

\* ---------------------------------------------------------------- bounds
MaxMsgs == 2        \* messages sent in one behaviour
MaxProcs == 2       \* start_message_processor calls in one behaviour
MaxLogCalls == 1003 \* log_event calls in one behaviour of SpecLog
MaxWorkflows == 1   \* execute_workflow calls in one behaviour
MaxOps == 2         \* store operations begun in one behaviour
MaxTimeCalls == 11  \* get_current_time is called while the log is shorter
MaxConcurrent == 2  \* execute_workflow calls in flight together

\* ------------------------------------------------------- program constants
MaxEvents == 1000

Procs == 1..MaxProcs

\* Names a message can be addressed to: one registered at import time
\* (agent.py:1008) and one that is not.
ToAgents == {"task_manager_agent", "unregistered_agent"}
FromAgents == {"goal_planning_agent"}

\* The handler capability a caller registers after import time; "None" is
\* the absence of a registration.
Handlers == {"handle_analysis_message"}

VARIABLES
    events,          \* tracker.events: the bounded event log
    nLogged,         \* number of log_event calls so far (fresh event ids)
    messages,        \* the A2AMessage objects created so far, by message id
    message_queue,   \* A2AProtocol.message_queue: ids, head first
    agent_handlers,  \* A2AProtocol.agent_handlers
    is_running,      \* A2AProtocol._is_running
    pc,              \* position of each start_message_processor task
    cur,             \* the message a processor's handler is running on
    dispatched,      \* history: dispatches in the order they happened
    failedMsgs,      \* history: messages whose handler raised
    queuedAtStop,    \* history: how many messages at the head of the queue
                     \* were already queued when stop() was last called
    stopRequested,   \* history: the tasks that existed when stop() was called
    workflows,       \* the locals of each execute_workflow call
    runs,            \* history: the _run_agent calls, in the order they began
    db,              \* the content of the file tasks_db.json
    calls,           \* the store operation each process is in, and its reply
    nOps,            \* number of store operations begun so far
    web_runner,      \* the module global _web_runner
    observed         \* the last reply of a read of the event log

vars == <<events, nLogged, messages, message_queue, agent_handlers, is_running,
          pc, cur, dispatched, failedMsgs, queuedAtStop, stopRequested,
          workflows, runs, db, calls, nOps, web_runner, observed>>

wfVars == <<workflows, runs>>

storeVars == <<db, calls, nOps>>

obsVars == <<web_runner, observed>>

busVars == <<messages, message_queue, agent_handlers, is_running, pc, cur,
             dispatched, failedMsgs, queuedAtStop, stopRequested>>

Range(s) == {s[i] : i \in DOMAIN s}

\* ------------------------------------------------------ ObservabilityTracker

\* The event built by log_event; the uuid is modelled by the call number.
\* The last field is what the claims read of the details: the message id of
\* a bus event, the details record of an orchestrator event.
ObservabilityEvent(id, type, agent, action, mid) ==
    [event_id |-> id, event_type |-> type, agent_name |-> agent,
     action |-> action, message_id |-> mid]

\* Mutant of the eviction: keeps the first MaxEvents entries.
LogEvent_KeepOldest(evs, id, type, agent, action, mid) ==
    LET appended == Append(evs, ObservabilityEvent(id, type, agent, action, mid))
    IN  IF Len(appended) > MaxEvents
        THEN SubSeq(appended, 1, MaxEvents)
        ELSE appended

\* log_event: append, then keep only the last MaxEvents entries.
LogEvent(evs, id, type, agent, action, mid) ==
    LET appended == Append(evs, ObservabilityEvent(id, type, agent, action, mid))
    IN  IF Len(appended) > MaxEvents
        THEN SubSeq(appended, Len(appended) - MaxEvents + 1, Len(appended))
        ELSE appended

\* ------------------------------------------------------------- A2AProtocol

\* A2AMessage.__init__
A2AMessage(id, from, to) ==
    [message_id |-> id, from_agent |-> from, to_agent |-> to,
     delivered |-> FALSE]

\* Mutant of the put: the message goes to the head of the queue.
QueuePut_Front(q, m) == <<m>> \o q

\* asyncio.Queue.put on the unbounded FIFO queue.
QueuePut(q, m) == Append(q, m)

\* Mutant of the get: the item is read but stays in the queue.
QueueRest_Peek(q) == q

\* asyncio.Queue.get: what is left after the head has been taken.
QueueRest(q) == Tail(q)

\* Mutant of the loop condition: the flag is never looked at.
LoopTop_IgnoreFlag(running) == "waiting"

\* The head of the processing loop: `while self._is_running` followed by
\* the wait on the queue, or the exit of the loop.
LoopTop(running) == IF running THEN "waiting" ELSE "done"

\* Mutant of the lookup: an unregistered name falls back to a default handler.
LookupHandler_Fallback(handlers, to) ==
    IF handlers[to] # "None" THEN handlers[to]
                             ELSE "handle_task_manager_message"

\* Mutant of the lookup: the handler registered at import time keeps being
\* used after the name has been registered again (first write wins).
LookupHandler_FirstWins(handlers, to) ==
    IF to = "task_manager_agent" THEN "handle_task_manager_message"
                                 ELSE handlers[to]

\* `message.to_agent in self.agent_handlers` and the lookup that follows it,
\* both made when the message is dispatched.
LookupHandler(handlers, to) == handlers[to]

\* Mutant of the failure branch: the message is put back for a retry.
AfterHandlerError_Requeue(q, m) == Append(q, m)

\* The failure branch of _process_message leaves the queue alone.
AfterHandlerError(q, m) == q

\* Mutant of the success branch: the flag is left as it was.
MarkDelivered_Never(msgs, m) == msgs

\* message.delivered = True
MarkDelivered(msgs, m) == [msgs EXCEPT ![m].delivered = TRUE]

\* ---------------------------------------------- SequentialAgentOrchestrator

Workflows == 1..MaxWorkflows

\* A text is a sequence of words.  The keywords the orchestrator looks for
\* have no blank in them, so `keyword in text` is decided word by word.

\* str.lower on the words of the model that are not lower case already.
LowerWord ==
    [w \in {"Goal", "REPORT", "Task", "Analysis", "Agent", "No", "I"} |->
        CASE w = "Goal" -> "goal"
          [] w = "REPORT" -> "report"
          [] w = "Task" -> "task"
          [] w = "Analysis" -> "analysis"
          [] w = "Agent" -> "agent"
          [] w = "No" -> "no"
          [] w = "I" -> "i"]

Lower(word) == IF word \in DOMAIN LowerWord THEN LowerWord[word] ELSE word

\* text.lower()
LowerText(text) == [i \in DOMAIN text |-> Lower(text[i])]

\* The keywords that occur inside a longer word of the model.
Infixes ==
    {<<"task", "task_manager_agent">>, <<"goal", "goal_planning_agent">>,
     <<"plan", "goal_planning_agent">>, <<"analysis", "analysis_agent">>}

\* `keyword in text`, Python's substring test.
Contains(keyword, text) ==
    \E i \in DOMAIN text : keyword = text[i] \/ <<keyword, text[i]>> \in Infixes

RECURSIVE TextLen(_)
\* len(text): the characters of the words and one blank between two words.
TextLen(text) ==
    IF text = <<>> THEN 0
    ELSE Len(Head(text)) + (IF Len(text) > 1 THEN 1 ELSE 0) + TextLen(Tail(text))

\* What a caller types.
InputTexts ==
    {<<"hello">>, <<"Goal">>, <<"plan">>, <<"REPORT">>, <<"stats", "goal">>}

\* What an executor's final response can be, and how an executor can fail.
ResponseTexts == {<<"done">>, <<"Task", "report">>, <<"Analysis">>, <<"task">>}
ErrorTexts == {<<"boom">>}

\* The outcomes of one executor call: the stream had a final response, it
\* ended without one, or it raised.
Outcomes ==
    [kind : {"final"}, text : ResponseTexts]
        \cup {[kind |-> "no_final", text |-> <<>>]}
        \cup [kind : {"failed"}, text : ErrorTexts]

GoalKeywords == {"goal", "long-term", "strategy", "plan", "vision"}
AnalysisKeywords == {"report", "analysis", "stats", "trend", "progress"}

\* Mutant of the routing: "goal" is not among the goal keywords.
RouteToAgent_NoGoalKeyword(user_input) ==
    LET input_lower == LowerText(user_input)
    IN  IF \E k \in GoalKeywords \ {"goal"} : Contains(k, input_lower)
        THEN "goal_planning_agent"
        ELSE IF \E k \in AnalysisKeywords : Contains(k, input_lower)
        THEN "analysis_agent"
        ELSE "task_manager_agent"

\* Mutant of the routing: the analysis keywords are tried first.
RouteToAgent_AnalysisFirst(user_input) ==
    LET input_lower == LowerText(user_input)
    IN  IF \E k \in AnalysisKeywords : Contains(k, input_lower)
        THEN "analysis_agent"
        ELSE IF \E k \in GoalKeywords : Contains(k, input_lower)
        THEN "goal_planning_agent"
        ELSE "task_manager_agent"

\* _route_to_agent
RouteToAgent(user_input) ==
    LET input_lower == LowerText(user_input)
    IN  IF \E k \in GoalKeywords : Contains(k, input_lower)
        THEN "goal_planning_agent"
        ELSE IF \E k \in AnalysisKeywords : Contains(k, input_lower)
        THEN "analysis_agent"
        ELSE "task_manager_agent"

\* Mutant of the secondary rule: the analysis test comes first.
DetermineSecondaryAgent_AnalysisFirst(user_input, primary_response) ==
    LET input_lower == LowerText(user_input)
        response_lower == LowerText(primary_response)
    IN  IF Contains("report", response_lower)
              \/ Contains("analysis", response_lower)
        THEN "analysis_agent"
        ELSE IF Contains("goal", input_lower) /\ Contains("task", response_lower)
        THEN "goal_planning_agent"
        ELSE "None"

\* Mutant of the secondary rule: the goal-planning agent needs "goal" only.
DetermineSecondaryAgent_GoalOnly(user_input, primary_response) ==
    LET input_lower == LowerText(user_input)
        response_lower == LowerText(primary_response)
    IN  IF Contains("goal", input_lower)
        THEN "goal_planning_agent"
        ELSE IF Contains("report", response_lower)
                   \/ Contains("analysis", response_lower)
        THEN "analysis_agent"
        ELSE "None"

\* Mutant of the secondary rule: "report" in the response selects nothing.
DetermineSecondaryAgent_NoReport(user_input, primary_response) ==
    LET input_lower == LowerText(user_input)
        response_lower == LowerText(primary_response)
    IN  IF Contains("goal", input_lower) /\ Contains("task", response_lower)
        THEN "goal_planning_agent"
        ELSE IF Contains("analysis", response_lower)
        THEN "analysis_agent"
        ELSE "None"

\* _determine_secondary_agent
DetermineSecondaryAgent(user_input, primary_response) ==
    LET input_lower == LowerText(user_input)
        response_lower == LowerText(primary_response)
    IN  IF Contains("goal", input_lower) /\ Contains("task", response_lower)
        THEN "goal_planning_agent"
        ELSE IF Contains("report", response_lower)
                   \/ Contains("analysis", response_lower)
        THEN "analysis_agent"
        ELSE "None"

\* "No response generated."
NoResponseText == <<"No", "response", "generated.">>

\* Mutant of the fallback text: it does not name the agent.
FallbackText_NoName(agent, error) ==
    <<"The", "agent", "encountered", "an", "error:">> \o error

\* f"Agent {agent.name} encountered an error: {str(e)}"
FallbackText(agent, error) ==
    <<"Agent", agent, "encountered", "an", "error:">> \o error

\* f"I encountered an error while processing your request: {str(e)}"
ApologyText(error) ==
    <<"I", "encountered", "an", "error", "while", "processing", "your",
      "request:">> \o error

\* The separator of the two responses, "\n\n---\n\n".
Separator == <<"---">>

\* Mutant of the except clauses: they are too narrow for the failure.
CatchesException_Narrow(error) == FALSE

\* `except Exception` in _run_agent and in execute_workflow: every failure
\* of an executor or of a step of the workflow is an Exception.
CatchesException(error) == TRUE

\* Mutant of the failure branch of _run_agent: the failure is raised again.
RunAgentOnError_Reraise(agent, error) ==
    [raised |-> TRUE, text |-> error, event_type |-> "none",
     action |-> "none", details |-> [error |-> error]]

\* The except branch of _run_agent: an error event execution_failed for
\* the agent, and the fallback text as the response.
RunAgentOnError(agent, error) ==
    [raised |-> FALSE, text |-> FallbackText(agent, error),
     event_type |-> "error", action |-> "execution_failed",
     details |-> [error |-> error]]

\* The success path of _run_agent: an agent_call event agent_execution with
\* the input length and the duration, and the final response or the default.
RunAgentOnSuccess(message, outcome) ==
    [raised |-> FALSE,
     text |-> IF outcome.kind = "final" THEN outcome.text ELSE NoResponseText,
     event_type |-> "agent_call", action |-> "agent_execution",
     details |-> [input_length |-> TextLen(message),
                  duration_ms |-> "elapsed"]]

\* _run_agent, from the executor's outcome to what it logs and returns.
RunAgent(agent, message, outcome) ==
    IF outcome.kind = "failed"
    THEN IF CatchesException(outcome.text)
         THEN RunAgentOnError(agent, outcome.text)
         ELSE [raised |-> TRUE, text |-> outcome.text, event_type |-> "none",
               action |-> "none", details |-> [error |-> outcome.text]]
    ELSE RunAgentOnSuccess(message, outcome)

\* Mutant of line 815: the secondary agent is given the primary's response.
SecondaryMessage_Response(user_input, primary_response) == primary_response

\* The message of the secondary run is the original input.
SecondaryMessage(user_input, primary_response) == user_input

\* f"{primary_response}\n\n---\n\n{secondary_response}"
MergeResponses(primary_response, secondary_response) ==
    primary_response \o Separator \o secondary_response

\* execute_workflow run from its call to its return with nothing in
\* between: the agents it runs and the text it returns, for its input and
\* the outcomes of its executors (the second is not looked at when no
\* secondary agent is selected).
SoloWorkflow(user_input, first, second) ==
    LET primary_agent == RouteToAgent(user_input)
        primary == RunAgent(primary_agent, user_input, first)
        secondary_agent == DetermineSecondaryAgent(user_input, primary.text)
        secondary == RunAgent(secondary_agent,
                              SecondaryMessage(user_input, primary.text),
                              second)
    IN  IF secondary_agent = "None"
        THEN [agents |-> <<primary_agent>>, result |-> primary.text]
        ELSE [agents |-> <<primary_agent, secondary_agent>>,
              result |-> MergeResponses(primary.text, secondary.text)]

\* The locals of an execute_workflow call that has not been made.
IdleWorkflow ==
    [pc |-> "idle", user_input |-> <<>>, primary_agent |-> "None",
     primary_response |-> <<>>, secondary_agent |-> "None",
     secondary_response |-> <<>>, result |-> <<>>]

\* ------------------------------------------------------------ the task store

\* The processes that open the file DB_PATH: the web application, which is
\* the process whose tracker `events` is, and the command line chat.
MainProcess == "web_app"
Processes == {"web_app", "cli"}

\* Python's None, as an argument that was not given or a field without value.
None == "None"

\* The value of _now_iso(); the clock is not modelled.
NowIso == "now"

\* The file does not exist: _load_db returns {"tasks": [], "goals": []}.
NoFile == [exists |-> FALSE, tasks |-> <<>>, goals |-> <<>>]

\* The dictionary _load_db returns for a missing or unreadable file.
EmptyDb == [tasks |-> <<>>, goals |-> <<>>]

\* str.lower on the titles of the model.
LowerTitle(title) ==
    CASE title = "Buy milk" -> "buy milk"
      [] title = "Walk" -> "walk"
      [] title = "Call mom" -> "call mom"
      [] title = "Pay rent" -> "pay rent"
      [] title = "Read" -> "read"
      [] title = "Milk" -> "milk"
      [] title = "Achieve: Learn" -> "achieve: learn"
      [] title = "Achieve: Run" -> "achieve: run"
      [] title = "Achieve: None" -> "achieve: none"
      [] OTHER -> title

\* The task dictionary add_task builds.
NewTask(id, title, due_date, priority) ==
    [id |-> id, title |-> title, due_date |-> due_date,
     priority |-> priority, context |-> "", status |-> "pending",
     created_at |-> NowIso, updated_at |-> None, reminder_time |-> None,
     subtasks |-> <<>>]

\* The subtask dictionary add_subtasks builds.
NewSubtask(title) ==
    [title |-> title, status |-> "pending", created_at |-> NowIso,
     completed_at |-> None]

\* A store left by earlier runs: four add_task calls, two
\* update_task_status calls and one add_subtasks call on an empty store.
SampleTasks ==
    << [NewTask(1, "Buy milk", "2024-01-02", "low") EXCEPT
            !.status = "done", !.updated_at = NowIso,
            !.subtasks = <<NewSubtask("a")>>],
       NewTask(2, "Call mom", None, "urgent"),
       [NewTask(3, "Pay rent", "2024-01-02", "high") EXCEPT
            !.status = "in_progress", !.updated_at = NowIso],
       NewTask(4, "Read", "2024-01-01", "medium") >>

\* What the file can hold when the program starts.
InitialStores ==
    {NoFile, [exists |-> TRUE, tasks |-> SampleTasks, goals |-> <<>>]}

\* The arguments of the calls of the model.
AddRequests ==
    {[title |-> "buy milk", due_date |-> "2024-01-02", priority |-> "high"],
     [title |-> "Buy milk", due_date |-> "2024-01-01", priority |-> "medium"],
     [title |-> "Walk", due_date |-> "2024-01-02", priority |-> "low"],
     [title |-> "Walk", due_date |-> "2024-01-03T09:00:00+00:00",
      priority |-> "medium"]}

TaskIdArgs == {1, 9}

UpdateRequests ==
    {[title |-> "Milk", due_date |-> None, priority |-> None,
      context |-> None, reminder_time |-> None],
     [title |-> None, due_date |-> "2024-01-01", priority |-> "high",
      context |-> None, reminder_time |-> None],
     [title |-> None, due_date |-> None, priority |-> None,
      context |-> "home", reminder_time |-> "09:00"]}

StatusArgs == {"done", "in_progress", "archived"}

SubtaskIndexArgs == {-1, 0, 1}

StatusFilters == {"all", "pending", "done"}

\* The task statuses update_task_status accepts.
ValidStatuses == {"pending", "in_progress", "done"}

\* The positions of the tasks of the list that have the given id.
Positions(tasks, task_id) == {i \in DOMAIN tasks : tasks[i].id = task_id}

\* The first task of the list with the given id, as the `for t in tasks`
\* loops find it; 0 when there is none.
FindTask(tasks, task_id) ==
    IF Positions(tasks, task_id) = {} THEN 0
    ELSE CHOOSE i \in Positions(tasks, task_id) :
             \A j \in Positions(tasks, task_id) : i <= j

RECURSIVE MaxId(_)
MaxId(tasks) ==
    IF tasks = <<>> THEN 0
    ELSE LET rest == MaxId(Tail(tasks))
         IN  IF Head(tasks).id > rest THEN Head(tasks).id ELSE rest

\* _next_task_id
NextTaskId(tasks) == IF tasks = <<>> THEN 1 ELSE MaxId(tasks) + 1

\* _load_db: the content of the file, or the empty dictionary when the
\* file is missing or when reading it raises (the latter is logged).
LoadDb(file, readable) ==
    IF ~file.exists THEN [failed |-> FALSE, data |-> EmptyDb]
    ELSE IF readable
    THEN [failed |-> FALSE,
          data |-> [tasks |-> file.tasks, goals |-> file.goals]]
    ELSE [failed |-> TRUE, data |-> EmptyDb]

\* Mutant of _save_db: the tasks written are merged into those of the file.
SaveDb_Merge(file, data, writable) ==
    IF writable
    THEN [exists |-> TRUE,
          tasks |-> file.tasks \o
                    SelectSeq(data.tasks,
                              LAMBDA t : \A i \in DOMAIN file.tasks :
                                             file.tasks[i].id # t.id),
          goals |-> data.goals]
    ELSE file

\* _save_db: the whole file is replaced by the dictionary, or left as it
\* was when opening it for writing raises.
SaveDb(file, data, writable) ==
    IF writable
    THEN [exists |-> TRUE, tasks |-> data.tasks, goals |-> data.goals]
    ELSE file

\* What a tool does after _load_db, for the dictionary it loaded: the
\* envelope it returns, whether it calls _save_db and with what, and the
\* event it logs (none on the paths that return without logging).
NoEvent == [type |-> "none"]

ToolEvent(agent, action, details) ==
    [type |-> "tool_execution", agent |-> agent, action |-> action,
     details |-> details]

ErrorEvent(agent, action, details) ==
    [type |-> "error", agent |-> agent, action |-> action,
     details |-> details]

\* A path that returns before _save_db.
Returns(reply, event) ==
    [save |-> FALSE, data |-> EmptyDb, event |-> event, reply |-> reply]

\* A path that calls _save_db(data), logs the event and returns.
Saves(data, reply, event) ==
    [save |-> TRUE, data |-> data, event |-> event, reply |-> reply]

NotFound(task_id) ==
    Returns([status |-> "error", message |-> <<"Task", task_id, "not found.">>],
            NoEvent)

\* Mutant of the duplicate test: the titles are compared as they are written.
Duplicates_Exact(tasks, title, due_date) ==
    {i \in DOMAIN tasks :
        /\ tasks[i].title = title
        /\ tasks[i].due_date = due_date}

\* The tasks a new task with this title and due date duplicates.
Duplicates(tasks, title, due_date) ==
    {i \in DOMAIN tasks :
        /\ LowerTitle(tasks[i].title) = LowerTitle(title)
        /\ tasks[i].due_date = due_date}

\* add_task
AddTask(d, title, due_date, priority) ==
    LET dup == Duplicates(d.tasks, title, due_date)
        task == NewTask(NextTaskId(d.tasks), title, due_date, priority)
    IN  IF dup # {}
        THEN LET t == d.tasks[CHOOSE i \in dup : \A j \in dup : i <= j]
             IN  Returns([status |-> "duplicate", task |-> t,
                          message |-> <<"task_exists", t.id>>], NoEvent)
        ELSE Saves([d EXCEPT !.tasks = Append(@, task)],
                   [status |-> "success", task |-> task,
                    message |-> <<"task_created", task.id>>],
                   ToolEvent("TaskManager", "add_task",
                             [task_id |-> task.id, title |-> title,
                              priority |-> priority]))

\* _priority_rank
PriorityRank(p) ==
    CASE p = "high" -> 0 [] p = "medium" -> 1 [] p = "low" -> 2 [] OTHER -> 3

\* datetime.max
DatetimeMax == [aware |-> FALSE, t |-> 9999]

\* _parse_due of list_tasks on the due dates of the model: no date gives
\* datetime.max, a date gives a datetime without time zone, a date and time
\* with a UTC offset gives a datetime with time zone.
ParseDue(due_date) ==
    CASE due_date = None -> DatetimeMax
      [] due_date = "2024-01-01" -> [aware |-> FALSE, t |-> 1]
      [] due_date = "2024-01-02" -> [aware |-> FALSE, t |-> 2]
      [] due_date = "2024-01-03T09:00:00+00:00" -> [aware |-> TRUE, t |-> 3]
      [] due_date = "2023-12-31" -> [aware |-> FALSE, t |-> 0]
      [] due_date = "2023-01-20" -> [aware |-> FALSE, t |-> 0 - 345]
      [] due_date = "2024-02-10" -> [aware |-> FALSE, t |-> 41]
      [] due_date = "2024-12-05T18:30:00" -> [aware |-> FALSE, t |-> 340]
      [] due_date = "now+180d" -> [aware |-> FALSE, t |-> 1180]
      [] due_date = "now+360d" -> [aware |-> FALSE, t |-> 1360]
      [] OTHER -> DatetimeMax

\* The sort key of list_tasks.
SortKey(t) ==
    [due |-> ParseDue(t.due_date), rank |-> PriorityRank(t.priority),
     id |-> t.id]

\* Python refuses to order a datetime with a time zone and one without:
\* sorting raises TypeError as soon as the keys hold both kinds.
SortRaises(tasks) ==
    \E i, j \in DOMAIN tasks :
        SortKey(tasks[i]).due.aware # SortKey(tasks[j]).due.aware

\* The order of two sort keys, as Python orders tuples.
KeyLess(a, b) ==
    \/ a.due.t < b.due.t
    \/ a.due.t = b.due.t /\ a.rank < b.rank
    \/ a.due.t = b.due.t /\ a.rank = b.rank /\ a.id < b.id

\* list_tasks
ListTasks(d, status) ==
    LET tasks == IF status # "all"
                 THEN SelectSeq(d.tasks, LAMBDA t : t.status = status)
                 ELSE d.tasks
    IN  IF SortRaises(tasks)
        THEN Returns([status |-> "error", message |-> <<"TypeError">>],
                     ErrorEvent("TaskManager", "list_tasks_failed",
                                [error |-> <<"TypeError">>]))
        ELSE LET tasks_sorted ==
                     SortSeq(tasks,
                             LAMBDA a, b : KeyLess(SortKey(a), SortKey(b)))
             IN  Returns([status |-> "success", tasks |-> tasks_sorted],
                         ToolEvent("TaskManager", "list_tasks",
                                   [status_filter |-> status,
                                    count |-> Len(tasks_sorted)]))

\* The value of a field after update_task: the argument when it was given.
Provided(old, arg) == IF arg # None THEN arg ELSE old

\* Mutant of update_task: an argument that was not given clears the field.
UpdatedTask_Overwrite(t, req) ==
    [t EXCEPT !.title = req.title, !.due_date = req.due_date,
              !.priority = req.priority, !.context = req.context,
              !.reminder_time = req.reminder_time, !.updated_at = NowIso]

\* The assignments of update_task on the task it found.
UpdatedTask(t, req) ==
    [t EXCEPT !.title = Provided(@, req.title),
              !.due_date = Provided(@, req.due_date),
              !.priority = Provided(@, req.priority),
              !.context = Provided(@, req.context),
              !.reminder_time = Provided(@, req.reminder_time),
              !.updated_at = NowIso]

\* update_task
UpdateTask(d, task_id, req) ==
    LET i == FindTask(d.tasks, task_id)
    IN  IF i = 0 THEN NotFound(task_id)
        ELSE LET t == UpdatedTask(d.tasks[i], req)
             IN  Saves([d EXCEPT !.tasks[i] = t],
                       [status |-> "success", task |-> t],
                       ToolEvent("TaskManager", "update_task",
                                 [task_id |-> task_id]))

\* Mutant of the validation: every status is accepted.
IsValidStatus_Any(status) == TRUE

\* `status in {"pending", "in_progress", "done"}`
IsValidStatus(status) == status \in ValidStatuses

\* update_task_status
UpdateTaskStatus(d, task_id, status) ==
    LET i == FindTask(d.tasks, task_id)
    IN  IF ~IsValidStatus(status)
        THEN Returns([status |-> "error",
                      message |-> <<"Invalid status:", status>>], NoEvent)
        ELSE IF i = 0 THEN NotFound(task_id)
        ELSE LET t == [d.tasks[i] EXCEPT !.status = status,
                                         !.updated_at = NowIso]
             IN  Saves([d EXCEPT !.tasks[i] = t],
                       [status |-> "success", task |-> t],
                       ToolEvent("TaskManager", "update_task_status",
                                 [task_id |-> task_id,
                                  new_status |-> status]))

\* delete_task
DeleteTask(d, task_id) ==
    LET new_tasks == SelectSeq(d.tasks, LAMBDA t : t.id # task_id)
    IN  IF Len(new_tasks) = Len(d.tasks) THEN NotFound(task_id)
        ELSE Saves([d EXCEPT !.tasks = new_tasks],
                   [status |-> "success",
                    message |-> <<"Task", task_id, "deleted.">>],
                   ToolEvent("TaskManager", "delete_task",
                             [task_id |-> task_id]))

\* datetime.fromisoformat on the due dates of the model: a date, or a date
\* and time, gives its year and month; None raises TypeError and any other
\* text raises ValueError, which delete_previous_month_tasks catches.
FromIsoFormat(due_date) ==
    CASE due_date \in {"2024-01-01", "2024-01-02"} ->
            [ok |-> TRUE, year |-> 2024, month |-> 1]
      [] due_date = "2024-01-03T09:00:00+00:00" ->
            [ok |-> TRUE, year |-> 2024, month |-> 1]
      [] due_date = "2023-12-31" -> [ok |-> TRUE, year |-> 2023, month |-> 12]
      [] due_date = "2023-01-20" -> [ok |-> TRUE, year |-> 2023, month |-> 1]
      [] due_date = "2024-02-10" -> [ok |-> TRUE, year |-> 2024, month |-> 2]
      [] due_date = "2024-12-05T18:30:00" ->
            [ok |-> TRUE, year |-> 2024, month |-> 12]
      [] OTHER -> [ok |-> FALSE, year |-> 0, month |-> 0]

\* The values of datetime.utcnow() at the calls of the model, as year and
\* month.
Nows ==
    {[year |-> 2024, month |-> 1], [year |-> 2024, month |-> 2],
     [year |-> 2025, month |-> 1], [year |-> 2025, month |-> 2]}

\* The test delete_previous_month_tasks applies to a parsed due date.
IsPreviousMonth(due, now) ==
    \/ due.year = now.year /\ due.month = now.month - 1
    \/ now.month = 1 /\ due.year = now.year - 1 /\ due.month = 12

\* delete_previous_month_tasks, when datetime.utcnow() is in `now`
DeletePreviousMonthTasks(d, now) ==
    LET Removes(t) ==
            LET due == FromIsoFormat(t.due_date)
            IN  due.ok /\ IsPreviousMonth(due, now)
        cleaned == SelectSeq(d.tasks, LAMBDA t : ~Removes(t))
        removed == SelectSeq(d.tasks, LAMBDA t : Removes(t))
    IN  Saves([d EXCEPT !.tasks = cleaned],
              [status |-> "success", deleted_count |-> Len(removed),
               deleted_tasks |-> removed],
              ToolEvent("TaskManager", "delete_previous_month_tasks",
                        [deleted_count |-> Len(removed)]))

\* add_subtasks
AddSubtasks(d, task_id, subtasks) ==
    LET i == FindTask(d.tasks, task_id)
    IN  IF i = 0 THEN NotFound(task_id)
        ELSE LET t == [d.tasks[i] EXCEPT
                          !.subtasks =
                              @ \o [k \in DOMAIN subtasks |->
                                       NewSubtask(subtasks[k])],
                          !.updated_at = NowIso]
             IN  Saves([d EXCEPT !.tasks[i] = t],
                       [status |-> "success", task |-> t],
                       ToolEvent("TaskManager", "add_subtasks",
                                 [task_id |-> task_id,
                                  subtask_count |-> Len(subtasks)]))

\* Mutant of the range test: negative indices count from the end, as
\* Python's subscript does.
InRange_FromEnd(subtask_index, subs) ==
    -Len(subs) <= subtask_index /\ subtask_index < Len(subs)

\* `0 <= subtask_index < len(subs)`
InRange(subtask_index, subs) ==
    0 <= subtask_index /\ subtask_index < Len(subs)

\* The position of subs[subtask_index] in the sequence, counted from 1.
Subscript(subtask_index, subs) ==
    IF subtask_index >= 0 THEN subtask_index + 1
    ELSE Len(subs) + subtask_index + 1

\* mark_subtask_done
MarkSubtaskDone(d, task_id, subtask_index) ==
    LET i == FindTask(d.tasks, task_id)
    IN  IF i = 0 THEN NotFound(task_id)
        ELSE IF ~InRange(subtask_index, d.tasks[i].subtasks)
        THEN Returns([status |-> "error",
                      message |-> <<"Subtask index", subtask_index,
                                    "out of range.">>], NoEvent)
        ELSE LET k == Subscript(subtask_index, d.tasks[i].subtasks)
                 t == [d.tasks[i] EXCEPT
                          !.subtasks[k].status = "done",
                          !.subtasks[k].completed_at = NowIso,
                          !.updated_at = NowIso]
             IN  Saves([d EXCEPT !.tasks[i] = t],
                       [status |-> "success", task |-> t],
                       ToolEvent("TaskManager", "mark_subtask_done",
                                 [task_id |-> task_id,
                                  subtask_index |-> subtask_index]))

\* save_long_term_goal
SaveLongTermGoal(d, goal, horizon_months, category) ==
    LET goal_obj == [goal |-> goal, horizon_months |-> horizon_months,
                     category |-> IF category = None THEN "" ELSE category,
                     created_at |-> NowIso]
    IN  Saves([d EXCEPT !.goals = Append(@, goal_obj)],
              [status |-> "success", goal |-> goal_obj],
              ToolEvent("GoalManager", "save_long_term_goal",
                        [goal |-> goal, horizon_months |-> horizon_months]))

\* A process that is in no store operation and has made none.
IdleCall == [pc |-> "idle", op |-> "none"]

\* Everything but the file: the state of a process after import.
\* ------------------------------------------------- reads of the event log

\* The five members of EventType, by value.
EventTypes == {"agent_call", "tool_execution", "a2a_communication", "error",
               "session_created"}

\* The filters a caller of get_events passes: no name, the empty name, the
\* name of a source that logs and of one that has not logged anything.
AgentFilters == {None, "", "System", "WebRunner", "Orchestrator"}
TypeFilters == {None, "tool_execution", "session_created", "error"}

\* Python's truth value of an agent_name argument: None and "" are false.
Truthy(agent_name) == agent_name \notin {None, ""}

\* Mutant of get_events: an event passes when either filter accepts it.
GetEvents_Either(evs, agent_name, event_type) ==
    IF Truthy(agent_name) /\ event_type # None
    THEN SelectSeq(evs, LAMBDA e : \/ e.agent_name = agent_name
                                  \/ e.event_type = event_type)
    ELSE IF Truthy(agent_name)
    THEN SelectSeq(evs, LAMBDA e : e.agent_name = agent_name)
    ELSE IF event_type # None
    THEN SelectSeq(evs, LAMBDA e : e.event_type = event_type)
    ELSE evs

\* get_events: the list, filtered by name when the name is true, then by
\* type when the type is given (a member of EventType is always true).
GetEvents(evs, agent_name, event_type) ==
    LET byAgent == IF Truthy(agent_name)
                   THEN SelectSeq(evs, LAMBDA e : e.agent_name = agent_name)
                   ELSE evs
    IN  IF event_type # None
        THEN SelectSeq(byAgent, LAMBDA e : e.event_type = event_type)
        ELSE byAgent

\* len([e for e in events if e.event_type == type])
CountType(evs, type) == Len(SelectSeq(evs, LAMBDA e : e.event_type = type))

\* events[-10:]
LastTen(evs) ==
    SubSeq(evs, (IF Len(evs) > 10 THEN Len(evs) - 10 + 1 ELSE 1), Len(evs))

\* One entry of recent_events; the time of an event is its call number.
RecentEvent(e) ==
    [event_type |-> e.event_type, agent |-> e.agent_name,
     timestamp |-> e.event_id, action |-> e.action]

\* get_system_metrics
GetSystemMetrics(evs) ==
    [total_events    |-> Len(evs),
     agent_calls     |-> CountType(evs, "agent_call"),
     tool_executions |-> CountType(evs, "tool_execution"),
     a2a_messages    |-> CountType(evs, "a2a_communication"),
     errors          |-> CountType(evs, "error"),
     uptime          |-> "since_first_event",
     recent_events   |-> [i \in DOMAIN LastTen(evs) |->
                            RecentEvent(LastTen(evs)[i])]]

\* GET /api/metrics
GetMetricsEndpoint(evs) ==
    [total_events    |-> Len(evs),
     agent_calls     |-> CountType(evs, "agent_call"),
     tool_executions |-> CountType(evs, "tool_execution"),
     errors          |-> CountType(evs, "error"),
     uptime          |-> "active"]

\* No reply of a read is held.
NoReply == [op |-> "none"]

\* The state after import, but for the registry, the workflow calls and
\* the file.
InitCommon ==
    /\ events = <<>>
    /\ nLogged = 0
    /\ messages = <<>>
    /\ message_queue = <<>>
    /\ is_running = FALSE
    /\ pc = [p \in Procs |-> "none"]
    /\ cur = [p \in Procs |-> 0]
    /\ dispatched = <<>>
    /\ failedMsgs = {}
    /\ queuedAtStop = 0
    /\ stopRequested = {}
    /\ runs = <<>>
    /\ calls = [p \in Processes |-> IdleCall]
    /\ nOps = 0
    /\ web_runner = None
    /\ observed = NoReply

InitOther ==
    /\ InitCommon
    /\ agent_handlers =
         [a \in ToAgents |->
            IF a = "task_manager_agent" THEN "handle_task_manager_message"
                                        ELSE "None"]
    /\ workflows = [w \in Workflows |-> IdleWorkflow]

\* A first start: the file tasks_db.json does not exist yet.
Init ==
    /\ InitOther
    /\ db = NoFile

\* A start with whatever earlier runs left in the file.
InitStore ==
    /\ InitOther
    /\ db \in InitialStores

\* register_agent(agent_name, handler)
RegisterAgent(name, handler) ==
    /\ agent_handlers[name] # handler
    /\ agent_handlers' = [agent_handlers EXCEPT ![name] = handler]
    /\ UNCHANGED <<events, nLogged, messages, message_queue, is_running, pc,
                   cur, dispatched, failedMsgs, queuedAtStop,
                   stopRequested>>
    /\ UNCHANGED wfVars
    /\ UNCHANGED storeVars
    /\ UNCHANGED obsVars

\* Mutant of send_message: the event is attributed to the receiver.
SendMessage_LogsReceiver(from, to) ==
    /\ Len(messages) < MaxMsgs
    /\ LET m == Len(messages) + 1
       IN  /\ messages' = Append(messages, A2AMessage(m, from, to))
           /\ message_queue' = QueuePut(message_queue, m)
           /\ events' = LogEvent(events, nLogged + 1, "a2a_communication",
                                 to, "message_sent", m)
           /\ nLogged' = nLogged + 1
    /\ UNCHANGED <<agent_handlers, is_running, pc, cur, dispatched,
                   failedMsgs, queuedAtStop, stopRequested>>
    /\ UNCHANGED wfVars
    /\ UNCHANGED storeVars
    /\ UNCHANGED obsVars

\* Mutant of send_message: the message is queued and nothing is logged.
SendMessage_Silent(from, to) ==
    /\ Len(messages) < MaxMsgs
    /\ LET m == Len(messages) + 1
       IN  /\ messages' = Append(messages, A2AMessage(m, from, to))
           /\ message_queue' = QueuePut(message_queue, m)
    /\ UNCHANGED <<events, nLogged, agent_handlers, is_running, pc, cur,
                   dispatched, failedMsgs, queuedAtStop, stopRequested>>
    /\ UNCHANGED wfVars
    /\ UNCHANGED storeVars
    /\ UNCHANGED obsVars

\* send_message(A2AMessage(from, to, ...)): put, then log message_sent.
SendMessage(from, to) ==
    /\ Len(messages) < MaxMsgs
    /\ LET m == Len(messages) + 1
       IN  /\ messages' = Append(messages, A2AMessage(m, from, to))
           /\ message_queue' = QueuePut(message_queue, m)
           /\ events' = LogEvent(events, nLogged + 1, "a2a_communication",
                                 from, "message_sent", m)
           /\ nLogged' = nLogged + 1
    /\ UNCHANGED <<agent_handlers, is_running, pc, cur, dispatched,
                   failedMsgs, queuedAtStop, stopRequested>>
    /\ UNCHANGED wfVars
    /\ UNCHANGED storeVars
    /\ UNCHANGED obsVars

\* A caller creates a task for start_message_processor(); the coroutine has
\* not run yet.
StartMessageProcessor(p) ==
    /\ pc[p] = "none"
    /\ \A q \in Procs : q < p => pc[q] # "none"   \* tasks are numbered in creation order
    /\ pc' = [pc EXCEPT ![p] = "created"]
    /\ UNCHANGED <<events, nLogged, messages, message_queue, agent_handlers,
                   is_running, cur, dispatched, failedMsgs, queuedAtStop,
                   stopRequested>>
    /\ UNCHANGED wfVars
    /\ UNCHANGED storeVars
    /\ UNCHANGED obsVars

\* First step of the coroutine: set the flag, test it, wait on the queue.
ProcessorFirstStep(p) ==
    /\ pc[p] = "created"
    /\ is_running' = TRUE
    /\ pc' = [pc EXCEPT ![p] = LoopTop(TRUE)]
    /\ UNCHANGED <<events, nLogged, messages, message_queue, agent_handlers,
                   cur, dispatched, failedMsgs, queuedAtStop, stopRequested>>
    /\ UNCHANGED wfVars
    /\ UNCHANGED storeVars
    /\ UNCHANGED obsVars

\* Mutant of the timeout branch: the loop ends when the wait times out.
PollTimeout_Exits(p) ==
    /\ pc[p] = "waiting"
    /\ pc' = [pc EXCEPT ![p] = "done"]
    /\ UNCHANGED <<events, nLogged, messages, message_queue, agent_handlers,
                   is_running, cur, dispatched, failedMsgs, queuedAtStop,
                   stopRequested>>
    /\ UNCHANGED wfVars
    /\ UNCHANGED storeVars
    /\ UNCHANGED obsVars

\* The wait on the queue times out: TimeoutError, continue, loop head.
PollTimeout(p) ==
    /\ pc[p] = "waiting"
    /\ pc' = [pc EXCEPT ![p] = LoopTop(is_running)]
    /\ UNCHANGED <<events, nLogged, messages, message_queue, agent_handlers,
                   is_running, cur, dispatched, failedMsgs, queuedAtStop,
                   stopRequested>>
    /\ UNCHANGED wfVars
    /\ UNCHANGED storeVars
    /\ UNCHANGED obsVars

\* The wait on the queue returns a message and _process_message runs up to
\* the handler's first suspension point, or to the end when no handler is
\* registered for to_agent.
Dequeue(p) ==
    /\ pc[p] = "waiting"
    /\ message_queue # <<>>
    /\ LET m == Head(message_queue)
           h == LookupHandler(agent_handlers, messages[m].to_agent)
       IN  /\ message_queue' = QueueRest(message_queue)
           /\ dispatched' = Append(dispatched,
                                   [msg |-> m, handler |-> h])
           /\ IF h # "None"
              THEN /\ pc' = [pc EXCEPT ![p] = "handler"]
                   /\ cur' = [cur EXCEPT ![p] = m]
                   /\ UNCHANGED <<events, nLogged>>
              ELSE /\ events' = LogEvent(events, nLogged + 1, "error",
                                         "A2AProtocol", "agent_not_found", m)
                   /\ nLogged' = nLogged + 1
                   /\ pc' = [pc EXCEPT ![p] = LoopTop(is_running)]
                   /\ UNCHANGED cur
    /\ queuedAtStop' = IF queuedAtStop > 0 THEN queuedAtStop - 1 ELSE 0
    /\ UNCHANGED <<messages, agent_handlers, is_running, failedMsgs,
                   stopRequested>>
    /\ UNCHANGED wfVars
    /\ UNCHANGED storeVars
    /\ UNCHANGED obsVars

\* The handler returns: delivered, message_processed, loop head.
HandlerSuccess(p) ==
    /\ pc[p] = "handler"
    /\ LET m == cur[p]
       IN  /\ messages' = MarkDelivered(messages, m)
           /\ events' = LogEvent(events, nLogged + 1, "a2a_communication",
                                 messages[m].to_agent, "message_processed", m)
           /\ nLogged' = nLogged + 1
    /\ pc' = [pc EXCEPT ![p] = LoopTop(is_running)]
    /\ cur' = [cur EXCEPT ![p] = 0]
    /\ UNCHANGED <<message_queue, agent_handlers, is_running, dispatched,
                   failedMsgs, queuedAtStop, stopRequested>>
    /\ UNCHANGED wfVars
    /\ UNCHANGED storeVars
    /\ UNCHANGED obsVars

\* Mutant of the failing handler step: delivered is set before the handler
\* is awaited, so it stays set when the handler raises.
HandlerFailure_MarksDelivered(p) ==
    /\ pc[p] = "handler"
    /\ LET m == cur[p]
       IN  /\ messages' = MarkDelivered(messages, m)
           /\ events' = LogEvent(events, nLogged + 1, "error",
                                 messages[m].to_agent,
                                 "message_processing_error", m)
           /\ nLogged' = nLogged + 1
           /\ message_queue' = AfterHandlerError(message_queue, m)
           /\ failedMsgs' = failedMsgs \cup {m}
    /\ pc' = [pc EXCEPT ![p] = LoopTop(is_running)]
    /\ cur' = [cur EXCEPT ![p] = 0]
    /\ UNCHANGED <<agent_handlers, is_running, dispatched,
                   queuedAtStop, stopRequested>>
    /\ UNCHANGED wfVars
    /\ UNCHANGED storeVars
    /\ UNCHANGED obsVars

\* The handler raises: message_processing_error, loop head.
HandlerFailure(p) ==
    /\ pc[p] = "handler"
    /\ LET m == cur[p]
       IN  /\ events' = LogEvent(events, nLogged + 1, "error",
                                 messages[m].to_agent,
                                 "message_processing_error", m)
           /\ nLogged' = nLogged + 1
           /\ message_queue' = AfterHandlerError(message_queue, m)
           /\ failedMsgs' = failedMsgs \cup {m}
    /\ pc' = [pc EXCEPT ![p] = LoopTop(is_running)]
    /\ cur' = [cur EXCEPT ![p] = 0]
    /\ UNCHANGED <<messages, agent_handlers, is_running, dispatched,
                   queuedAtStop, stopRequested>>
    /\ UNCHANGED wfVars
    /\ UNCHANGED storeVars
    /\ UNCHANGED obsVars

\* stop()
Stop ==
    /\ is_running' = FALSE
    /\ stopRequested' = stopRequested \cup
           {p \in Procs : pc[p] \in {"created", "waiting", "handler"}}
    /\ queuedAtStop' = Len(message_queue)
    /\ UNCHANGED <<events, nLogged, messages, message_queue, agent_handlers,
                   pc, cur, dispatched, failedMsgs>>
    /\ UNCHANGED wfVars
    /\ UNCHANGED storeVars
    /\ UNCHANGED obsVars

Next ==
    \/ \E name \in ToAgents, handler \in Handlers : RegisterAgent(name, handler)
    \/ \E from \in FromAgents, to \in ToAgents : SendMessage(from, to)
    \/ \E p \in Procs : StartMessageProcessor(p)
    \/ \E p \in Procs : ProcessorFirstStep(p)
    \/ \E p \in Procs : PollTimeout(p)
    \/ \E p \in Procs : Dequeue(p)
    \/ \E p \in Procs : HandlerSuccess(p)
    \/ \E p \in Procs : HandlerFailure(p)
    \/ Stop

Spec == Init /\ [][Next]_vars

\* The scheduler runs every task that is ready, the poll timeout expires,
\* and every handler invocation returns or raises.  Callers of the bus
\* (send, stop, start, register) are under no obligation.
Fairness ==
    \A p \in Procs :
        /\ WF_vars(ProcessorFirstStep(p))
        /\ WF_vars(PollTimeout(p))
        /\ WF_vars(Dequeue(p))
        /\ WF_vars(HandlerSuccess(p) \/ HandlerFailure(p))

FairSpec == Spec /\ Fairness

\* The bus while nobody calls stop().
NextRunning ==
    \/ \E name \in ToAgents, handler \in Handlers : RegisterAgent(name, handler)
    \/ \E from \in FromAgents, to \in ToAgents : SendMessage(from, to)
    \/ \E p \in Procs : StartMessageProcessor(p)
    \/ \E p \in Procs : ProcessorFirstStep(p)
    \/ \E p \in Procs : PollTimeout(p)
    \/ \E p \in Procs : Dequeue(p)
    \/ \E p \in Procs : HandlerSuccess(p)
    \/ \E p \in Procs : HandlerFailure(p)

FairSpecRunning == Init /\ [][NextRunning]_vars /\ Fairness

\* ------------------------------------------------- the event log on its own

\* Any caller of tracker.log_event; the bus is left alone.
LogEventCall ==
    /\ nLogged < MaxLogCalls
    /\ events' = LogEvent(events, nLogged + 1, "tool_execution",
                          "TaskManager", "add_task", 0)
    /\ nLogged' = nLogged + 1
    /\ UNCHANGED busVars
    /\ UNCHANGED wfVars
    /\ UNCHANGED storeVars
    /\ UNCHANGED obsVars

NextLog == LogEventCall

SpecLog == Init /\ [][NextLog]_vars

\* ------------------------------------------------ the orchestrator's steps

\* The _run_agent call a workflow is in: the last one it began.
CurrentRun(w) ==
    CHOOSE r \in DOMAIN runs :
        /\ runs[r].wf = w
        /\ \A q \in DOMAIN runs : runs[q].wf = w => q <= r

\* The record of a _run_agent call that has begun: the executor is running.
RunRecord(w, role, agent, message) ==
    [wf |-> w, role |-> role, agent |-> agent, message |-> message,
     outcome |-> [kind |-> "pending", text |-> <<>>]]

\* The history of the runs once the executor of run r has ended.
ReturnRun(rs, r, outcome) == [rs EXCEPT ![r].outcome = outcome]

\* The event _run_agent logs before it returns, if it logs one.
RunEvents(evs, n, w, r, agent, res) ==
    IF res.event_type = "none" THEN evs
    ELSE LogEvent(evs, n + 1, res.event_type, agent, res.action,
                  [wf |-> w, run |-> r] @@ res.details)

NumRunEvents(res) == IF res.event_type = "none" THEN 0 ELSE 1

\* Mutant of the workflow_complete event: agents_involved lists only the
\* agents that ran.
WorkflowComplete_OmitsNone(evs, n, w, primary, secondary) ==
    LogEvent(evs, n + 1, "agent_call", "Orchestrator", "workflow_complete",
             [wf |-> w, duration_ms |-> "elapsed",
              agents_involved |->
                  IF secondary = "None" THEN <<primary>>
                                        ELSE <<primary, secondary>>])

\* The workflow_complete event, agent.py:821-829.
WorkflowComplete(evs, n, w, primary, secondary) ==
    LogEvent(evs, n + 1, "agent_call", "Orchestrator", "workflow_complete",
             [wf |-> w, duration_ms |-> "elapsed",
              agents_involved |->
                  <<primary, IF secondary = "None" THEN "none" ELSE secondary>>])

\* A failure reaches execute_workflow: its except clause logs
\* workflow_failed and returns the apology, or the failure leaves the call.
WorkflowException(w, error, rs) ==
    /\ runs' = rs
    /\ IF CatchesException(error)
       THEN /\ events' = LogEvent(events, nLogged + 1, "error", "Orchestrator",
                                  "workflow_failed",
                                  [wf |-> w, error |-> error])
            /\ nLogged' = nLogged + 1
            /\ workflows' = [workflows EXCEPT ![w].pc = "done",
                                              ![w].result = ApologyText(error)]
       ELSE /\ workflows' = [workflows EXCEPT ![w].pc = "raised"]
            /\ UNCHANGED <<events, nLogged>>

\* execute_workflow(user_input) up to the first suspension point: route,
\* log workflow_start, and begin the primary run.
ExecuteWorkflow(w, user_input) ==
    /\ workflows[w].pc = "idle"
    /\ \A v \in DOMAIN workflows : v < w => workflows[v].pc # "idle"   \* calls are numbered in order
    /\ LET primary_agent == RouteToAgent(user_input)
       IN  /\ events' = LogEvent(events, nLogged + 1, "agent_call",
                                 "Orchestrator", "workflow_start",
                                 [wf |-> w, input |-> user_input,
                                  primary_agent |-> primary_agent])
           /\ nLogged' = nLogged + 1
           /\ workflows' =
                 [workflows EXCEPT ![w] =
                     [IdleWorkflow EXCEPT !.pc = "primary_running",
                                          !.user_input = user_input,
                                          !.primary_agent = primary_agent]]
           /\ runs' = Append(runs, RunRecord(w, "primary", primary_agent,
                                             user_input))
    /\ UNCHANGED busVars
    /\ UNCHANGED storeVars
    /\ UNCHANGED obsVars

\* Mutant of the end of the primary run: the input is kept in an attribute
\* of the orchestrator, so the selection reads the input of the call that
\* was made last.
PrimaryReturns_SharedInput(w, outcome) ==
    /\ workflows[w].pc = "primary_running"
    /\ LET wf == workflows[w]
           r == CurrentRun(w)
           res == RunAgent(wf.primary_agent, runs[r].message, outcome)
           returned == ReturnRun(runs, r, outcome)
           logged == RunEvents(events, nLogged, w, r, wf.primary_agent, res)
           n == nLogged + NumRunEvents(res)
           latest == CHOOSE v \in DOMAIN workflows :
                         /\ workflows[v].pc # "idle"
                         /\ \A u \in DOMAIN workflows :
                               workflows[u].pc # "idle" => u <= v
           secondary_agent == DetermineSecondaryAgent(
                                  workflows[latest].user_input, res.text)
       IN  IF res.raised
           THEN WorkflowException(w, res.text, returned)
           ELSE IF secondary_agent # "None"
           THEN /\ workflows' =
                      [workflows EXCEPT ![w].pc = "secondary_running",
                                        ![w].primary_response = res.text,
                                        ![w].secondary_agent = secondary_agent]
                /\ runs' = Append(returned,
                                  RunRecord(w, "secondary", secondary_agent,
                                            SecondaryMessage(wf.user_input,
                                                             res.text)))
                /\ events' = logged
                /\ nLogged' = n
           ELSE /\ workflows' =
                      [workflows EXCEPT ![w].pc = "done",
                                        ![w].primary_response = res.text,
                                        ![w].result = res.text]
                /\ runs' = returned
                /\ events' = WorkflowComplete(logged, n, w, wf.primary_agent,
                                              "None")
                /\ nLogged' = n + 1
    /\ UNCHANGED busVars
    /\ UNCHANGED storeVars
    /\ UNCHANGED obsVars

\* The primary executor ends with the given outcome: _run_agent logs and
\* returns, the secondary agent is determined, and either the secondary run
\* begins or the workflow completes with the primary response.
PrimaryReturns(w, outcome) ==
    /\ workflows[w].pc = "primary_running"
    /\ LET wf == workflows[w]
           r == CurrentRun(w)
           res == RunAgent(wf.primary_agent, runs[r].message, outcome)
           returned == ReturnRun(runs, r, outcome)
           logged == RunEvents(events, nLogged, w, r, wf.primary_agent, res)
           n == nLogged + NumRunEvents(res)
           secondary_agent == DetermineSecondaryAgent(wf.user_input, res.text)
       IN  IF res.raised
           THEN WorkflowException(w, res.text, returned)
           ELSE IF secondary_agent # "None"
           THEN /\ workflows' =
                      [workflows EXCEPT ![w].pc = "secondary_running",
                                        ![w].primary_response = res.text,
                                        ![w].secondary_agent = secondary_agent]
                /\ runs' = Append(returned,
                                  RunRecord(w, "secondary", secondary_agent,
                                            SecondaryMessage(wf.user_input,
                                                             res.text)))
                /\ events' = logged
                /\ nLogged' = n
           ELSE /\ workflows' =
                      [workflows EXCEPT ![w].pc = "done",
                                        ![w].primary_response = res.text,
                                        ![w].result = res.text]
                /\ runs' = returned
                /\ events' = WorkflowComplete(logged, n, w, wf.primary_agent,
                                              "None")
                /\ nLogged' = n + 1
    /\ UNCHANGED busVars
    /\ UNCHANGED storeVars
    /\ UNCHANGED obsVars

\* Mutant of the end of the secondary run: the selection is made again on
\* the secondary's response, and another run begins when it selects one.
SecondaryReturns_Chains(w, outcome) ==
    /\ workflows[w].pc = "secondary_running"
    /\ LET wf == workflows[w]
           r == CurrentRun(w)
           res == RunAgent(wf.secondary_agent, runs[r].message, outcome)
           returned == ReturnRun(runs, r, outcome)
           logged == RunEvents(events, nLogged, w, r, wf.secondary_agent, res)
           n == nLogged + NumRunEvents(res)
           again == DetermineSecondaryAgent(wf.user_input, res.text)
       IN  IF again # "None"
           THEN /\ workflows' =
                      [workflows EXCEPT ![w].secondary_agent = again]
                /\ runs' = Append(returned,
                                  RunRecord(w, "secondary", again,
                                            wf.user_input))
                /\ events' = logged
                /\ nLogged' = n
           ELSE /\ workflows' =
                      [workflows EXCEPT
                          ![w].pc = "done",
                          ![w].secondary_response = res.text,
                          ![w].result = MergeResponses(wf.primary_response,
                                                       res.text)]
                /\ runs' = returned
                /\ events' = WorkflowComplete(logged, n, w, wf.primary_agent,
                                              wf.secondary_agent)
                /\ nLogged' = n + 1
    /\ UNCHANGED busVars
    /\ UNCHANGED storeVars
    /\ UNCHANGED obsVars

\* The secondary executor ends with the given outcome: _run_agent logs and
\* returns, the two responses are merged, the workflow completes.
SecondaryReturns(w, outcome) ==
    /\ workflows[w].pc = "secondary_running"
    /\ LET wf == workflows[w]
           r == CurrentRun(w)
           res == RunAgent(wf.secondary_agent, runs[r].message, outcome)
           returned == ReturnRun(runs, r, outcome)
           logged == RunEvents(events, nLogged, w, r, wf.secondary_agent, res)
           n == nLogged + NumRunEvents(res)
       IN  IF res.raised
           THEN WorkflowException(w, res.text, returned)
           ELSE /\ workflows' =
                      [workflows EXCEPT
                          ![w].pc = "done",
                          ![w].secondary_response = res.text,
                          ![w].result = MergeResponses(wf.primary_response,
                                                       res.text)]
                /\ runs' = returned
                /\ events' = WorkflowComplete(logged, n, w, wf.primary_agent,
                                              wf.secondary_agent)
                /\ nLogged' = n + 1
    /\ UNCHANGED busVars
    /\ UNCHANGED storeVars
    /\ UNCHANGED obsVars

NextWorkflow ==
    \/ \E w \in Workflows, user_input \in InputTexts :
          ExecuteWorkflow(w, user_input)
    \/ \E w \in Workflows, outcome \in Outcomes : PrimaryReturns(w, outcome)
    \/ \E w \in Workflows, outcome \in Outcomes : SecondaryReturns(w, outcome)

SpecWorkflow == Init /\ [][NextWorkflow]_vars

\* Every executor call ends: its stream finishes or it raises.  Callers of
\* execute_workflow are under no obligation.
FairnessWorkflow ==
    \A w \in Workflows :
        /\ WF_vars(\E outcome \in Outcomes : PrimaryReturns(w, outcome))
        /\ WF_vars(\E outcome \in Outcomes : SecondaryReturns(w, outcome))

FairSpecWorkflow == SpecWorkflow /\ FairnessWorkflow

\* Several execute_workflow calls in flight on the one orchestrator: each
\* is a task of the same scheduler, and their steps come in any order.
ConcurrentWorkflows == 1..MaxConcurrent

ConcurrentInputs == {<<"hello">>, <<"Goal">>}

ConcurrentOutcomes ==
    {[kind |-> "final", text |-> <<"task">>],
     [kind |-> "final", text |-> <<"Analysis">>],
     [kind |-> "failed", text |-> <<"boom">>]}

InitConcurrent ==
    /\ InitCommon
    /\ agent_handlers =
         [a \in ToAgents |->
            IF a = "task_manager_agent" THEN "handle_task_manager_message"
                                        ELSE "None"]
    /\ workflows = [w \in ConcurrentWorkflows |-> IdleWorkflow]
    /\ db = NoFile

NextConcurrent ==
    \/ \E w \in ConcurrentWorkflows, user_input \in ConcurrentInputs :
          ExecuteWorkflow(w, user_input)
    \/ \E w \in ConcurrentWorkflows, outcome \in ConcurrentOutcomes :
          PrimaryReturns(w, outcome)
    \/ \E w \in ConcurrentWorkflows, outcome \in ConcurrentOutcomes :
          SecondaryReturns(w, outcome)

SpecConcurrent == InitConcurrent /\ [][NextConcurrent]_vars

\* ---------------------------------------------------- the store's operations

RECURSIVE LogEvents(_, _, _)
\* The log after the given events have been logged one after the other.
LogEvents(evs, n, list) ==
    IF list = <<>> THEN evs
    ELSE LogEvents(LogEvent(evs, n + 1, Head(list).type, Head(list).agent,
                            Head(list).action, Head(list).details),
                   n + 1, Tail(list))

\* The events a process logs go to its own tracker; `events` is the
\* tracker of the main process.
Logs(p, list) ==
    /\ events' = IF p = MainProcess THEN LogEvents(events, nLogged, list)
                                    ELSE events
    /\ nLogged' = IF p = MainProcess THEN nLogged + Len(list) ELSE nLogged

LoadFailed == ErrorEvent("Database", "load_failed", [error |-> <<"OSError">>])
SaveFailed == ErrorEvent("Database", "save_failed", [error |-> <<"OSError">>])

\* A tool is called by process p: _load_db, then the tool's own code up to
\* its return or to its call of _save_db.  `loaded` is what _load_db gave,
\* `out` what the tool does with it.  The record of the call keeps, for
\* the claims, the file as it was (file) and which of the two file
\* operations failed.
StoreCall(p, op, args, loaded, out) ==
    /\ calls[p].pc = "idle"
    /\ nOps < MaxOps
    /\ nOps' = nOps + 1
    /\ LET call == [op |-> op, args |-> args, file |-> db,
                    load_failed |-> loaded.failed, loaded |-> loaded.data,
                    out |-> out]
           loadEvents == IF loaded.failed THEN <<LoadFailed>> ELSE <<>>
       IN  IF out.save
           THEN /\ calls' = [calls EXCEPT ![p] = [pc |-> "saving"] @@ call]
                /\ Logs(p, loadEvents)
           ELSE /\ calls' = [calls EXCEPT ![p] =
                               [pc |-> "idle", reply |-> out.reply,
                                saved |-> FALSE, save_failed |-> FALSE]
                               @@ call]
                /\ Logs(p, loadEvents \o
                           (IF out.event = NoEvent THEN <<>>
                                                   ELSE <<out.event>>))
    /\ UNCHANGED db
    /\ UNCHANGED busVars
    /\ UNCHANGED wfVars
    /\ UNCHANGED obsVars

AddTaskCall(p, req, readable) ==
    LET loaded == LoadDb(db, readable)
    IN  StoreCall(p, "add_task", req, loaded,
                  AddTask(loaded.data, req.title, req.due_date, req.priority))

ListTasksCall(p, status, readable) ==
    LET loaded == LoadDb(db, readable)
    IN  StoreCall(p, "list_tasks", [status |-> status], loaded,
                  ListTasks(loaded.data, status))

UpdateTaskCall(p, task_id, req, readable) ==
    LET loaded == LoadDb(db, readable)
    IN  StoreCall(p, "update_task", [task_id |-> task_id] @@ req, loaded,
                  UpdateTask(loaded.data, task_id, req))

UpdateTaskStatusCall(p, task_id, status, readable) ==
    LET loaded == LoadDb(db, readable)
    IN  StoreCall(p, "update_task_status",
                  [task_id |-> task_id, status |-> status], loaded,
                  UpdateTaskStatus(loaded.data, task_id, status))

DeleteTaskCall(p, task_id, readable) ==
    LET loaded == LoadDb(db, readable)
    IN  StoreCall(p, "delete_task", [task_id |-> task_id], loaded,
                  DeleteTask(loaded.data, task_id))

AddSubtasksCall(p, task_id, subtasks, readable) ==
    LET loaded == LoadDb(db, readable)
    IN  StoreCall(p, "add_subtasks",
                  [task_id |-> task_id, subtasks |-> subtasks], loaded,
                  AddSubtasks(loaded.data, task_id, subtasks))

MarkSubtaskDoneCall(p, task_id, subtask_index, readable) ==
    LET loaded == LoadDb(db, readable)
    IN  StoreCall(p, "mark_subtask_done",
                  [task_id |-> task_id, subtask_index |-> subtask_index],
                  loaded,
                  MarkSubtaskDone(loaded.data, task_id, subtask_index))

DeletePreviousMonthTasksCall(p, now, readable) ==
    LET loaded == LoadDb(db, readable)
    IN  StoreCall(p, "delete_previous_month_tasks", [now |-> now],
                  loaded, DeletePreviousMonthTasks(loaded.data, now))

SaveLongTermGoalCall(p, goal, readable) ==
    LET loaded == LoadDb(db, readable)
    IN  StoreCall(p, "save_long_term_goal", [goal |-> goal], loaded,
                  SaveLongTermGoal(loaded.data, goal, 6, None))

\* The tail of a tool that changes the store: _save_db, the tool's event,
\* the success envelope.
SaveStep(p, writable) ==
    /\ calls[p].pc = "saving"
    /\ db' = SaveDb(db, calls[p].out.data, writable)
    /\ calls' = [calls EXCEPT ![p] =
                    [pc |-> "idle", reply |-> calls[p].out.reply,
                     saved |-> writable, save_failed |-> ~writable] @@
                    [op |-> calls[p].op, args |-> calls[p].args,
                     file |-> calls[p].file,
                     load_failed |-> calls[p].load_failed,
                     loaded |-> calls[p].loaded, out |-> calls[p].out]]
    /\ Logs(p, (IF writable THEN <<>> ELSE <<SaveFailed>>) \o
               <<calls[p].out.event>>)
    /\ UNCHANGED nOps
    /\ UNCHANGED busVars
    /\ UNCHANGED wfVars
    /\ UNCHANGED obsVars

\* One process: its tools are synchronous functions, so each runs from its
\* load to its return before the next one begins.
NextStore ==
    \/ \E req \in AddRequests, readable \in BOOLEAN :
          AddTaskCall(MainProcess, req, readable)
    \/ \E status \in StatusFilters, readable \in BOOLEAN :
          ListTasksCall(MainProcess, status, readable)
    \/ \E task_id \in TaskIdArgs, req \in UpdateRequests, readable \in BOOLEAN :
          UpdateTaskCall(MainProcess, task_id, req, readable)
    \/ \E task_id \in TaskIdArgs, status \in StatusArgs, readable \in BOOLEAN :
          UpdateTaskStatusCall(MainProcess, task_id, status, readable)
    \/ \E task_id \in TaskIdArgs, readable \in BOOLEAN :
          DeleteTaskCall(MainProcess, task_id, readable)
    \/ \E task_id \in TaskIdArgs, readable \in BOOLEAN :
          AddSubtasksCall(MainProcess, task_id, <<"b">>, readable)
    \/ \E task_id \in TaskIdArgs, subtask_index \in SubtaskIndexArgs,
          readable \in BOOLEAN :
          MarkSubtaskDoneCall(MainProcess, task_id, subtask_index, readable)
    \/ \E now \in Nows, readable \in BOOLEAN :
          DeletePreviousMonthTasksCall(MainProcess, now, readable)
    \/ \E readable \in BOOLEAN :
          SaveLongTermGoalCall(MainProcess, "Learn", readable)
    \/ \E writable \in BOOLEAN : SaveStep(MainProcess, writable)

SpecStore == InitStore /\ [][NextStore]_vars

\* The store when update_task is not among the calls.
NextStoreNoUpdate ==
    \/ \E req \in AddRequests, readable \in BOOLEAN :
          AddTaskCall(MainProcess, req, readable)
    \/ \E task_id \in TaskIdArgs, status \in StatusArgs, readable \in BOOLEAN :
          UpdateTaskStatusCall(MainProcess, task_id, status, readable)
    \/ \E task_id \in TaskIdArgs, readable \in BOOLEAN :
          DeleteTaskCall(MainProcess, task_id, readable)
    \/ \E task_id \in TaskIdArgs, readable \in BOOLEAN :
          AddSubtasksCall(MainProcess, task_id, <<"b">>, readable)
    \/ \E task_id \in TaskIdArgs, subtask_index \in SubtaskIndexArgs,
          readable \in BOOLEAN :
          MarkSubtaskDoneCall(MainProcess, task_id, subtask_index, readable)
    \/ \E writable \in BOOLEAN : SaveStep(MainProcess, writable)

SpecStoreNoUpdate == InitStore /\ [][NextStoreNoUpdate]_vars

\* A store with due dates in several months and years, left by earlier
\* add_task calls: one without due date, one whose due date is no date.
CleanupTasks ==
    << NewTask(1, "Buy milk", "2023-12-31", "low"),
       NewTask(2, "Call mom", None, "urgent"),
       NewTask(3, "Pay rent", "2024-01-02", "high"),
       NewTask(4, "Read", "2023-01-20", "medium"),
       NewTask(5, "Walk", "tomorrow", "medium"),
       NewTask(6, "Milk", "2024-12-05T18:30:00", "medium"),
       NewTask(7, "Walk", "2024-02-10", "low"),
       NewTask(8, "Read", "2024-01-03T09:00:00+00:00", "medium") >>

InitCleanup ==
    /\ InitOther
    /\ db = [exists |-> TRUE, tasks |-> CleanupTasks, goals |-> <<>>]

\* The monthly clean-up, run from time to time on that store.
NextCleanup ==
    \/ \E now \in Nows, readable \in BOOLEAN :
          DeletePreviousMonthTasksCall(MainProcess, now, readable)
    \/ \E writable \in BOOLEAN : SaveStep(MainProcess, writable)

SpecCleanup == InitCleanup /\ [][NextCleanup]_vars

\* ------------------------------------------- the three registered handlers

\* The messages the callers of the bus send.  A content is the dictionary
\* the sender built; a value whose Python type matters to a handler carries
\* it: [int |-> 12], [str |-> "six"], [none |-> None].  "user" is a sender
\* no handler is registered for.
Requests ==
    {[from_agent |-> "goal_planning_agent", to_agent |-> "task_manager_agent",
      message_type |-> "decompose_goal", content |-> [goal |-> "Learn"]],
     [from_agent |-> "user", to_agent |-> "task_manager_agent",
      message_type |-> "decompose_goal",
      content |-> [goal |-> "Run", horizon_months |-> [str |-> "six"]]],
     [from_agent |-> "task_manager_agent", to_agent |-> "goal_planning_agent",
      message_type |-> "suggest_goals_from_tasks",
      content |-> [patterns |-> <<[str |-> "Weekly meeting"],
                                  [str |-> "gym"]>>]],
     [from_agent |-> "task_manager_agent", to_agent |-> "analysis_agent",
      message_type |-> "generate_productivity_report",
      content |-> [period |-> "week"]],
     [from_agent |-> "user", to_agent |-> "analysis_agent",
      message_type |-> "generate_productivity_report",
      content |-> [period |-> "week"]]}

\* A tool called from a handler, after its _load_db gave `loaded` and its
\* work gave `out`: _save_db when the tool changes the store, the events in
\* the order they are logged.
RunTool(file, loaded, out, writable) ==
    [file |-> IF out.save THEN SaveDb(file, out.data, writable) ELSE file,
     reply |-> out.reply,
     events |-> (IF loaded.failed THEN <<LoadFailed>> ELSE <<>>) \o
                (IF out.save /\ ~writable THEN <<SaveFailed>> ELSE <<>>) \o
                (IF out.event = NoEvent THEN <<>> ELSE <<out.event>>)]

\* list_long_term_goals
ListLongTermGoals(d) ==
    Returns([status |-> "success", goals |-> d.goals],
            ToolEvent("GoalManager", "list_long_term_goals",
                      [count |-> Len(d.goals)]))

\* Mutant of the handler: it also answers goals_created_from_patterns, a
\* reply addressed to it, as it answers decompose_goal.
HandleTaskManagerMessage_AnswersReplies(message, file, readable, writable) ==
    LET content == message.content
        goal == IF "goal" \in DOMAIN content THEN content.goal ELSE None
        horizon == IF "horizon_months" \in DOMAIN content
                   THEN content.horizon_months ELSE [int |-> 6]
        title == CASE goal = "Learn" -> "Achieve: Learn"
                   [] goal = "Run" -> "Achieve: Run"
                   [] OTHER -> "Achieve: None"
        due_date == CASE horizon.int * 30 = 180 -> "now+180d"
                      [] horizon.int * 30 = 360 -> "now+360d"
        loaded == LoadDb(file, readable)
        task_result ==
            RunTool(file, loaded,
                    AddTask(loaded.data, title, due_date, "high"), writable)
        created == task_result.reply.status = "success"
    IN  IF message.message_type \notin
               {"decompose_goal", "goals_created_from_patterns"}
        THEN [raises |-> FALSE, file |-> file, events |-> <<>>,
              replies |-> <<>>]
        ELSE IF "int" \notin DOMAIN horizon
        THEN [raises |-> TRUE, file |-> file, events |-> <<>>,
              replies |-> <<>>]
        ELSE [raises |-> FALSE, file |-> task_result.file,
              events |-> task_result.events,
              replies |-> << [to_agent |-> message.from_agent,
                              message_type |-> "goal_decomposed",
                              content |->
                                  [original_goal |-> goal,
                                   main_task_created |-> created,
                                   task_id |->
                                       IF created
                                       THEN [int |-> task_result.reply.task.id]
                                       ELSE [none |-> None]]] >>]

\* handle_task_manager_message: what the call does to the file, the events
\* its tool logs, the messages it sends, and whether it raises.  The clock
\* is not modelled: the due date is a text that names the distance from now.
\* timedelta(days=...) raises TypeError when horizon_months is a str, before
\* add_task is called.
HandleTaskManagerMessage(message, file, readable, writable) ==
    LET content == message.content
        goal == IF "goal" \in DOMAIN content THEN content.goal ELSE None
        horizon == IF "horizon_months" \in DOMAIN content
                   THEN content.horizon_months ELSE [int |-> 6]
        title == CASE goal = "Learn" -> "Achieve: Learn"
                   [] goal = "Run" -> "Achieve: Run"
                   [] OTHER -> "Achieve: None"
        due_date == CASE horizon.int * 30 = 180 -> "now+180d"
                      [] horizon.int * 30 = 360 -> "now+360d"
        loaded == LoadDb(file, readable)
        task_result ==
            RunTool(file, loaded,
                    AddTask(loaded.data, title, due_date, "high"), writable)
        created == task_result.reply.status = "success"
    IN  IF message.message_type # "decompose_goal"
        THEN [raises |-> FALSE, file |-> file, events |-> <<>>,
              replies |-> <<>>]
        ELSE IF "int" \notin DOMAIN horizon
        THEN [raises |-> TRUE, file |-> file, events |-> <<>>,
              replies |-> <<>>]
        ELSE [raises |-> FALSE, file |-> task_result.file,
              events |-> task_result.events,
              replies |-> << [to_agent |-> message.from_agent,
                              message_type |-> "goal_decomposed",
                              content |->
                                  [original_goal |-> goal,
                                   main_task_created |-> created,
                                   task_id |->
                                       IF created
                                       THEN [int |-> task_result.reply.task.id]
                                       ELSE [none |-> None]]] >>]

\* handle_goal_planning_message: the loop over the first two patterns saves
\* a goal for each pattern with "meeting" in its lower-cased text;
\* pattern.lower() raises AttributeError on a pattern that is no str.
HandleGoalPlanningMessage(message, file, readable, writable) ==
    LET content == message.content
        task_patterns == IF "patterns" \in DOMAIN content
                         THEN content.patterns ELSE <<>>
        top == SubSeq(task_patterns, 1,
                      IF Len(task_patterns) < 2 THEN Len(task_patterns) ELSE 2)
        Pattern(st, i) ==
            IF st.raises \/ i > Len(top) THEN st
            ELSE IF "str" \notin DOMAIN top[i]
            THEN [st EXCEPT !.raises = TRUE]
            ELSE IF top[i].str \in {"Weekly meeting", "MEETING notes"}
            THEN LET loaded == LoadDb(st.file, readable)
                     goal_result ==
                         RunTool(st.file, loaded,
                                 SaveLongTermGoal(loaded.data,
                                     "Improve meeting efficiency and productivity",
                                     3, "productivity"),
                                 writable)
                 IN  [raises |-> FALSE, file |-> goal_result.file,
                      events |-> st.events \o goal_result.events]
            ELSE st
        looped == Pattern(Pattern([raises |-> FALSE, file |-> file,
                                   events |-> <<>>], 1), 2)
    IN  IF message.message_type # "suggest_goals_from_tasks"
        THEN [raises |-> FALSE, file |-> file, events |-> <<>>,
              replies |-> <<>>]
        ELSE IF looped.raises
        THEN [raises |-> TRUE, file |-> looped.file,
              events |-> looped.events, replies |-> <<>>]
        ELSE [raises |-> FALSE, file |-> looped.file,
              events |-> looped.events,
              replies |-> << [to_agent |-> message.from_agent,
                              message_type |-> "goals_created_from_patterns",
                              content |-> [goals_created |-> 1]] >>]

\* handle_analysis_message; the completion rate is kept as the pair the
\* division is made of.
HandleAnalysisMessage(message, file, readable, writable) ==
    LET loaded == LoadDb(file, readable)
        tasks_result ==
            RunTool(file, loaded, ListTasks(loaded.data, "all"), writable)
        goals_result ==
            RunTool(file, loaded, ListLongTermGoals(loaded.data), writable)
        tasks == IF "tasks" \in DOMAIN tasks_result.reply
                 THEN tasks_result.reply.tasks ELSE <<>>
        goals == IF "goals" \in DOMAIN goals_result.reply
                 THEN goals_result.reply.goals ELSE <<>>
        completed_tasks == SelectSeq(tasks, LAMBDA t : t.status = "done")
        pending_tasks == SelectSeq(tasks, LAMBDA t : t.status = "pending")
        analysis ==
            [total_tasks |-> Len(tasks),
             completed_tasks |-> Len(completed_tasks),
             pending_tasks |-> Len(pending_tasks),
             completion_rate |->
                 <<Len(completed_tasks),
                   IF Len(tasks) > 1 THEN Len(tasks) ELSE 1>>,
             active_goals |-> Len(goals),
             report_generated_at |-> NowIso]
    IN  IF message.message_type # "generate_productivity_report"
        THEN [raises |-> FALSE, file |-> file, events |-> <<>>,
              replies |-> <<>>]
        ELSE [raises |-> FALSE, file |-> goals_result.file,
              events |-> tasks_result.events \o goals_result.events,
              replies |-> << [to_agent |-> message.from_agent,
                              message_type |-> "productivity_report",
                              content |-> analysis] >>]

\* After import the three handlers are registered; the file does not exist.
InitChains ==
    /\ InitCommon
    /\ agent_handlers =
         [a \in {"task_manager_agent", "goal_planning_agent",
                 "analysis_agent", "user"} |->
            CASE a = "task_manager_agent" -> "handle_task_manager_message"
              [] a = "goal_planning_agent" -> "handle_goal_planning_message"
              [] a = "analysis_agent" -> "handle_analysis_message"
              [] OTHER -> "None"]
    /\ workflows = [w \in Workflows |-> IdleWorkflow]
    /\ db = NoFile

\* A caller of the bus sends a message: send_message on a new A2AMessage.
\* The field cause is history: the message whose handler sent this one, 0
\* for a message of a caller.
SendRequest(req) ==
    /\ Cardinality({m \in DOMAIN messages : messages[m].cause = 0}) < MaxMsgs
    /\ LET m == Len(messages) + 1
       IN  /\ messages' =
                  Append(messages,
                         A2AMessage(m, req.from_agent, req.to_agent) @@
                         [message_type |-> req.message_type,
                          content |-> req.content, cause |-> 0])
           /\ message_queue' = QueuePut(message_queue, m)
           /\ events' = LogEvent(events, nLogged + 1, "a2a_communication",
                                 req.from_agent, "message_sent", m)
           /\ nLogged' = nLogged + 1
    /\ UNCHANGED <<agent_handlers, is_running, pc, cur, dispatched,
                   failedMsgs, queuedAtStop, stopRequested>>
    /\ UNCHANGED wfVars
    /\ UNCHANGED storeVars
    /\ UNCHANGED obsVars

\* The handler _process_message awaits runs to its end (none of the three
\* suspends: their tools are synchronous and put on the unbounded queue
\* returns at once), then _process_message marks and logs the outcome and
\* the loop comes back to its head.
HandlerRuns(p, readable, writable) ==
    /\ pc[p] = "handler"
    /\ \E ran \in
          {CASE LookupHandler(agent_handlers, messages[cur[p]].to_agent) =
                    "handle_task_manager_message" ->
                  HandleTaskManagerMessage(messages[cur[p]], db, readable,
                                           writable)
             [] LookupHandler(agent_handlers, messages[cur[p]].to_agent) =
                    "handle_goal_planning_message" ->
                  HandleGoalPlanningMessage(messages[cur[p]], db, readable,
                                            writable)
             [] LookupHandler(agent_handlers, messages[cur[p]].to_agent) =
                    "handle_analysis_message" ->
                  HandleAnalysisMessage(messages[cur[p]], db, readable,
                                        writable)} :
          LET m == cur[p]
              message == messages[m]
              sent == [k \in DOMAIN ran.replies |->
                          A2AMessage(Len(messages) + k, message.to_agent,
                                     ran.replies[k].to_agent) @@
                          [message_type |-> ran.replies[k].message_type,
                           content |-> ran.replies[k].content, cause |-> m]]
              sentEvents == [k \in DOMAIN sent |->
                                [type |-> "a2a_communication",
                                 agent |-> message.to_agent,
                                 action |-> "message_sent",
                                 details |-> Len(messages) + k]]
              outcome == IF ran.raises
                         THEN [type |-> "error", agent |-> message.to_agent,
                               action |-> "message_processing_error",
                               details |-> m]
                         ELSE [type |-> "a2a_communication",
                               agent |-> message.to_agent,
                               action |-> "message_processed", details |-> m]
              logged == ran.events \o sentEvents \o <<outcome>>
          IN  /\ db' = ran.file
              /\ message_queue' =
                     IF ran.raises THEN AfterHandlerError(message_queue, m)
                     ELSE message_queue \o
                          [k \in DOMAIN sent |-> Len(messages) + k]
              /\ messages' = IF ran.raises THEN messages \o sent
                             ELSE MarkDelivered(messages \o sent, m)
              /\ events' = LogEvents(events, nLogged, logged)
              /\ nLogged' = nLogged + Len(logged)
              /\ failedMsgs' = IF ran.raises THEN failedMsgs \cup {m}
                                             ELSE failedMsgs
    /\ pc' = [pc EXCEPT ![p] = LoopTop(is_running)]
    /\ cur' = [cur EXCEPT ![p] = 0]
    /\ UNCHANGED <<agent_handlers, is_running, dispatched, queuedAtStop,
                   stopRequested>>
    /\ UNCHANGED <<calls, nOps>>
    /\ UNCHANGED wfVars
    /\ UNCHANGED obsVars

\* The bus with the three handlers and one processing loop, while nobody
\* calls stop() or registers another handler.
NextChains ==
    \/ \E req \in Requests : SendRequest(req)
    \/ StartMessageProcessor(1)
    \/ ProcessorFirstStep(1)
    \/ PollTimeout(1)
    \/ Dequeue(1)
    \/ \E readable \in BOOLEAN, writable \in BOOLEAN :
          HandlerRuns(1, readable, writable)

\* The scheduler runs every task that is ready, the poll timeout expires and
\* a handler that was invoked runs.
FairSpecChains ==
    /\ InitChains
    /\ [][NextChains]_vars
    /\ WF_vars(ProcessorFirstStep(1))
    /\ WF_vars(PollTimeout(1))
    /\ WF_vars(Dequeue(1))
    /\ WF_vars(\E readable \in BOOLEAN, writable \in BOOLEAN :
                  HandlerRuns(1, readable, writable))

\* Two processes on the same file: the load of one and the save of the
\* other are separate file operations and come in any order.
NextSharedStore ==
    \/ \E p \in Processes, req \in AddRequests, readable \in BOOLEAN :
          AddTaskCall(p, req, readable)
    \/ \E p \in Processes, writable \in BOOLEAN : SaveStep(p, writable)

SpecSharedStore == InitStore /\ [][NextSharedStore]_vars

\* ------------------------------------------- reads of the event log: steps

\* _get_web_runner: the first call creates the runner and its session and
\* logs session_created; later calls return what the first one made.
GetWebRunner ==
    /\ IF web_runner = None
       THEN /\ web_runner' = "InMemoryRunner"
            /\ events' = LogEvent(events, nLogged + 1, "session_created",
                                  "WebRunner", "session_created", 0)
            /\ nLogged' = nLogged + 1
       ELSE UNCHANGED <<web_runner, events, nLogged>>
    /\ UNCHANGED observed
    /\ UNCHANGED busVars
    /\ UNCHANGED wfVars
    /\ UNCHANGED storeVars

\* get_current_time: _now_iso() cannot raise, so the tool logs its
\* tool_execution event and returns.
GetCurrentTime ==
    /\ nLogged < MaxTimeCalls
    /\ events' = LogEvent(events, nLogged + 1, "tool_execution", "System",
                          "get_current_time", 0)
    /\ nLogged' = nLogged + 1
    /\ UNCHANGED obsVars
    /\ UNCHANGED busVars
    /\ UNCHANGED wfVars
    /\ UNCHANGED storeVars

\* A read of the log: the reply is kept with the log it was computed from.
Reads(op, args, result) ==
    /\ observed' = [op |-> op, args |-> args, log |-> events,
                    result |-> result]
    /\ UNCHANGED <<events, nLogged, web_runner>>
    /\ UNCHANGED busVars
    /\ UNCHANGED wfVars
    /\ UNCHANGED storeVars

GetEventsCall(agent_name, event_type) ==
    /\ observed = NoReply
    /\ Reads("get_events",
             [agent_name |-> agent_name, event_type |-> event_type],
             GetEvents(events, agent_name, event_type))

GetSystemMetricsCall ==
    /\ observed = NoReply
    /\ Reads("get_system_metrics", <<>>, GetSystemMetrics(events))

GetMetricsEndpointCall ==
    /\ observed = NoReply
    /\ Reads("get_metrics_endpoint", <<>>, GetMetricsEndpoint(events))

\* The caller has used the reply (the command loop prints the metrics and
\* goes on to the next input).
ReplyUsed ==
    /\ observed # NoReply
    /\ observed' = NoReply
    /\ UNCHANGED <<events, nLogged, web_runner>>
    /\ UNCHANGED busVars
    /\ UNCHANGED wfVars
    /\ UNCHANGED storeVars

\* The operations that log, and the reads of the log between them; the
\* caller of a read does nothing else until it has used the reply.
NextObserve ==
    \/ observed = NoReply /\ GetWebRunner
    \/ observed = NoReply /\ GetCurrentTime
    \/ \E from \in FromAgents :
          observed = NoReply /\ SendMessage(from, "task_manager_agent")
    \/ \E agent_name \in AgentFilters, event_type \in TypeFilters :
          GetEventsCall(agent_name, event_type)
    \/ GetSystemMetricsCall
    \/ GetMetricsEndpointCall
    \/ ReplyUsed

SpecObserve == Init /\ [][NextObserve]_vars

\* ------------------------------------------------------------------ claims

Min(a, b) == IF a < b THEN a ELSE b

\* The events of the log that have the given action and message id.
EventsOf(action, m) ==
    {i \in DOMAIN events :
        events[i].action = action /\ events[i].message_id = m}

\* C1: after N log_event calls the log holds exactly the last min(N, 1000)
\* logged events in insertion order: entry i is the event of call
\* N - len + i, so after 1001 calls the first event is gone and the second
\* is the oldest survivor.
C1_BoundedLog ==
    /\ Len(events) = Min(nLogged, MaxEvents)
    /\ \A i \in DOMAIN events :
          events[i].event_id = nLogged - Len(events) + i

C1_Witness ==
    /\ nLogged = MaxEvents + 1
    /\ Len(events) = MaxEvents
    /\ events[1].event_id = 2

\* C2: no message is dispatched twice, so the handler of its to_agent is
\* invoked at most once for one send.
C2_AtMostOnce ==
    \A i, j \in DOMAIN dispatched :
        dispatched[i].msg = dispatched[j].msg => i = j

C2_Witness ==
    \E m \in failedMsgs :
        /\ stopRequested # {}
        /\ m \notin Range(message_queue)
        /\ \A p \in Procs : pc[p] \in {"none", "done"}
        /\ \E i \in DOMAIN dispatched :
              dispatched[i].msg = m /\ dispatched[i].handler # "None"

\* C3: messages are dispatched (handler invoked, or dropped for want of a
\* handler) in the order they were sent; message ids are given in send order.
C3_FifoDispatch ==
    \A i, j \in DOMAIN dispatched :
        i < j => dispatched[i].msg < dispatched[j].msg

C3_Witness ==
    /\ Len(dispatched) >= 2
    /\ dispatched[1].handler # "None"
    /\ dispatched[2].handler = "None"
    /\ \E p, q \in Procs : p # q /\ pc[p] # "none" /\ pc[q] # "none"

\* C4: a send_message call appends the message to the tail of the queue,
\* appends exactly one a2a_communication event message_sent attributed to
\* from_agent, and invokes no handler: no dispatch is made and no processor
\* moves during the call.
C4_SendStep ==
    [][Len(messages') = Len(messages) + 1 =>
         LET m == Len(messages')
             e == events'[Len(events')]
         IN  /\ message_queue' = Append(message_queue, m)
             /\ Len(events') = Len(events) + 1
             /\ SubSeq(events', 1, Len(events)) = events
             /\ e.event_type = "a2a_communication"
             /\ e.action = "message_sent"
             /\ e.agent_name = messages'[m].from_agent
             /\ e.message_id = m
             /\ ~messages'[m].delivered
             /\ dispatched' = dispatched
             /\ pc' = pc /\ cur' = cur]_vars

C4_Witness ==
    /\ message_queue # <<>>
    /\ \E p \in Procs : pc[p] = "handler"
    /\ events[Len(events)].action = "message_sent"
    /\ events[Len(events)].message_id = message_queue[Len(message_queue)]
    /\ \A i \in DOMAIN dispatched :
          dispatched[i].msg # message_queue[Len(message_queue)]

C6_StopExits ==
    \A p \in Procs : (p \in stopRequested) ~> (pc[p] = "done")

\* C7: delivered goes from false to true exactly in the step in which the
\* handler invoked for the message returns without error, it is never set
\* back, and it is false for every message that was not dispatched to a
\* handler, whose handler failed, or that found no handler.
C7_Delivered ==
    /\ [](\A m \in DOMAIN messages :
            messages[m].delivered =>
                /\ m \notin failedMsgs
                /\ \E i \in DOMAIN dispatched :
                      dispatched[i].msg = m /\ dispatched[i].handler # "None")
    /\ [][\A m \in DOMAIN messages :
            LET returns == \E p \in Procs :
                              /\ pc[p] = "handler" /\ cur[p] = m
                              /\ pc'[p] # "handler"
                              /\ m \notin failedMsgs'
            IN  /\ messages[m].delivered => messages'[m].delivered
                /\ (~messages[m].delivered /\ messages'[m].delivered)
                      <=> returns]_vars

C7_Witness ==
    \E m, n \in DOMAIN messages :
        /\ messages[m].delivered
        /\ n \in failedMsgs
        /\ ~messages[n].delivered

\* C8: a message whose handler failed has exactly one error event
\* message_processing_error, is not in the queue again and was dispatched
\* once; the failing step sends nothing, leaves the queue alone, logs that
\* one event and takes the loop back to its head, where it goes on waiting
\* for the next message (it exits there only if stop() cleared the flag).
C8_HandlerFailure ==
    /\ [](\A m \in failedMsgs :
            /\ Cardinality(EventsOf("message_processing_error", m)) = 1
            /\ \A i \in EventsOf("message_processing_error", m) :
                  /\ events[i].event_type = "error"
                  /\ events[i].agent_name = messages[m].to_agent
            /\ EventsOf("message_processed", m) = {}
            /\ m \notin Range(message_queue)
            /\ Cardinality({i \in DOMAIN dispatched :
                               dispatched[i].msg = m}) = 1)
    /\ [][\A m \in failedMsgs' \ failedMsgs :
            /\ message_queue' = message_queue
            /\ messages' = messages
            /\ Len(events') = Len(events) + 1
            /\ SubSeq(events', 1, Len(events)) = events
            /\ events'[Len(events')].action = "message_processing_error"
            /\ events'[Len(events')].message_id = m
            /\ \E p \in Procs :
                  /\ pc[p] = "handler" /\ cur[p] = m
                  /\ pc'[p] = IF is_running THEN "waiting" ELSE "done"]_vars

C8_Witness ==
    /\ \A p \in Procs : p # 1 => pc[p] = "none"
    /\ is_running
    /\ Len(dispatched) >= 2
    /\ dispatched[1].msg \in failedMsgs
    /\ dispatched[2].handler # "None"

\* C9: a message with no handler registered for its to_agent when it is
\* dispatched has exactly one error event agent_not_found and no other
\* outcome, is never handed to a handler and is gone from the queue; the
\* step that drops it removes the head of the queue and changes neither the
\* rest of the queue nor the registry, and no processor enters a handler.
C9_AgentNotFound ==
    /\ [](\A i \in DOMAIN dispatched :
            dispatched[i].handler = "None" =>
                LET m == dispatched[i].msg
                IN  /\ Cardinality(EventsOf("agent_not_found", m)) = 1
                    /\ \A k \in EventsOf("agent_not_found", m) :
                          /\ events[k].event_type = "error"
                          /\ events[k].agent_name = "A2AProtocol"
                    /\ EventsOf("message_processed", m) = {}
                    /\ EventsOf("message_processing_error", m) = {}
                    /\ ~messages[m].delivered
                    /\ m \notin failedMsgs
                    /\ m \notin Range(message_queue)
                    /\ \A p \in Procs : cur[p] # m)
    /\ [][(/\ Len(dispatched') > Len(dispatched)
           /\ agent_handlers[messages[Head(message_queue)].to_agent] = "None")
            => /\ dispatched'[Len(dispatched')] =
                    [msg |-> Head(message_queue), handler |-> "None"]
               /\ message_queue' = Tail(message_queue)
               /\ agent_handlers' = agent_handlers
               /\ cur' = cur
               /\ \A p \in Procs : pc'[p] = "handler" => pc[p] = "handler"]_vars

C9_Witness ==
    \E i \in DOMAIN dispatched :
        /\ dispatched[i].handler = "None"
        /\ messages[dispatched[i].msg].to_agent = "unregistered_agent"
        /\ agent_handlers["unregistered_agent"] = "None"
        /\ EventsOf("agent_not_found", dispatched[i].msg) # {}
        /\ message_queue # <<>>

\* C10 as stated: at any moment at most one handler is executing.
C10_NoOverlap ==
    Cardinality({p \in Procs : pc[p] = "handler"}) <= 1

\* C11: register_agent overwrites the one entry of its name and nothing
\* else, and every dispatch uses the handler registered for to_agent at the
\* moment of the dispatch: after task_manager_agent has been registered
\* again, its messages (also those sent earlier) get the new handler.
C11_LastWriteWins ==
    /\ [][agent_handlers' # agent_handlers =>
            \E name \in ToAgents :
                /\ agent_handlers'[name] \in Handlers
                /\ \A other \in ToAgents \ {name} :
                      agent_handlers'[other] = agent_handlers[other]]_vars
    /\ [][Len(dispatched') > Len(dispatched) =>
            LET m == Head(message_queue)
            IN  dispatched'[Len(dispatched')] =
                   [msg |-> m,
                    handler |-> agent_handlers[messages[m].to_agent]]]_vars

C11_Witness ==
    /\ Len(dispatched) = 2
    /\ messages[1].to_agent = "task_manager_agent"
    /\ messages[2].to_agent = "task_manager_agent"
    /\ dispatched[1].handler = "handle_task_manager_message"
    /\ dispatched[2].handler = "handle_analysis_message"
    /\ agent_handlers["task_manager_agent"] = "handle_analysis_message"

\* The events of the log that the given workflow logged with the given
\* action.
WorkflowEvents(action, w) ==
    {i \in DOMAIN events :
        events[i].action = action /\ events[i].message_id.wf = w}

\* The runs of the given workflow.
RunsOf(w) == {r \in DOMAIN runs : runs[r].wf = w}

\* C12: execute_workflow never raises to its caller: whatever the input and
\* whatever the outcome of each executor (final response, no final
\* response, failure), no failure leaves the call, every executor outcome
\* is followed by the next run or by the return, and the call returns a
\* text value.
C12_NeverRaises ==
    /\ [](\A w \in Workflows :
            /\ workflows[w].pc # "raised"
            /\ workflows[w].pc = "done" => workflows[w].result # <<>>)
    /\ [][\A w \in Workflows :
             workflows'[w] # workflows[w] =>
                 workflows'[w].pc \in
                     {"primary_running", "secondary_running", "done"}]_vars

C12_Witness ==
    \E w \in Workflows :
        /\ workflows[w].pc = "done"
        /\ \E r \in RunsOf(w) : runs[r].outcome.kind = "failed"
        /\ \E r \in RunsOf(w) : runs[r].outcome.kind = "no_final"
        /\ workflows[w].secondary_response = NoResponseText

\* C13 as stated: when the primary or the secondary executor has failed,
\* the workflow has logged an error event workflow_failed and its result is
\* the generic apology text.
C13_WorkflowFailed ==
    \A w \in Workflows :
        (/\ workflows[w].pc = "done"
         /\ \E r \in RunsOf(w) : runs[r].outcome.kind = "failed")
        => /\ WorkflowEvents("workflow_failed", w) # {}
           /\ \E error \in ErrorTexts : workflows[w].result = ApologyText(error)

\* C13, amended: when the primary or the secondary executor fails, the run
\* logs an error event execution_failed for the failing agent and its
\* response is the fallback text "Agent <name> encountered an error:
\* <error>"; the workflow goes on with that text, logs no workflow_failed
\* event, and ends with workflow_complete and a result that holds the
\* fallback text, not the apology.
C13_ExecutionFailed ==
    \A r \in DOMAIN runs :
        runs[r].outcome.kind = "failed" =>
            LET w == runs[r].wf
                error == runs[r].outcome.text
                fallback == FallbackText(runs[r].agent, error)
            IN  /\ \E i \in DOMAIN events :
                      /\ events[i].action = "execution_failed"
                      /\ events[i].event_type = "error"
                      /\ events[i].agent_name = runs[r].agent
                      /\ events[i].message_id.run = r
                      /\ events[i].message_id.error = error
                /\ WorkflowEvents("workflow_failed", w) = {}
                /\ IF runs[r].role = "primary"
                   THEN workflows[w].primary_response = fallback
                   ELSE workflows[w].secondary_response = fallback
                /\ workflows[w].pc = "done" =>
                      /\ WorkflowEvents("workflow_complete", w) # {}
                      /\ workflows[w].result # ApologyText(error)
                      /\ workflows[w].result \in
                            {workflows[w].primary_response,
                             MergeResponses(workflows[w].primary_response,
                                            workflows[w].secondary_response)}

C13_Witness ==
    \E w \in Workflows :
        /\ workflows[w].pc = "done"
        /\ workflows[w].secondary_agent # "None"
        /\ \A r \in RunsOf(w) : runs[r].outcome.kind = "failed"
        /\ WorkflowEvents("workflow_complete", w) # {}

\* The workflows that have made the secondary selection.
Selected(w) == workflows[w].pc \in {"secondary_running", "done"}

\* The runs of the given workflow in the given role.
RunsAs(w, role) == {r \in RunsOf(w) : runs[r].role = role}

\* `keyword` occurs in the text, whatever the case of its letters.
HasWord(keyword, text) == Contains(keyword, LowerText(text))

\* C14: every workflow goes from routing to the primary run, then to the
\* secondary run or to the end, and from the secondary run to the end; it
\* has run the primary executor exactly once, first, and at most one
\* secondary executor, never more than two runs; and, every executor call
\* ending, a started workflow reaches the end with a text result: no
\* workflow stays in a run for ever, and a run can only be left forwards.
C14_Lifecycle ==
    /\ [][\A w \in Workflows :
             workflows'[w].pc # workflows[w].pc =>
                 <<workflows[w].pc, workflows'[w].pc>> \in
                     {<<"idle", "primary_running">>,
                      <<"primary_running", "secondary_running">>,
                      <<"primary_running", "done">>,
                      <<"secondary_running", "done">>}]_vars
    /\ [](\A w \in Workflows :
            /\ workflows[w].pc = "idle" => RunsOf(w) = {}
            /\ workflows[w].pc # "idle" =>
                  /\ Cardinality(RunsAs(w, "primary")) = 1
                  /\ Cardinality(RunsAs(w, "secondary")) <= 1
                  /\ Cardinality(RunsOf(w)) <= 2
                  /\ \A p \in RunsAs(w, "primary"), q \in RunsAs(w, "secondary") :
                        p < q /\ runs[p].outcome.kind # "pending"
            /\ workflows[w].pc = "done" =>
                  /\ \A r \in RunsOf(w) : runs[r].outcome.kind # "pending"
                  /\ workflows[w].result # <<>>)
    /\ []<>(\A w \in Workflows : workflows[w].pc \in {"idle", "done"})

C14_Witness ==
    \E w \in Workflows :
        /\ workflows[w].pc = "done"
        /\ Cardinality(RunsOf(w)) = 2
        /\ workflows[w].primary_agent = "analysis_agent"
        /\ workflows[w].secondary_agent = "analysis_agent"

\* C15: the primary agent is decided by the lower-cased input alone, first
\* match first: a goal keyword gives the goal-planning agent even next to
\* an analysis keyword, otherwise an analysis keyword gives the analysis
\* agent, otherwise the task-manager agent; the same text gives the same
\* agent, and that agent is the one the primary run runs.
C15_Routing ==
    /\ \A w \in Workflows :
          workflows[w].pc # "idle" =>
              LET text == workflows[w].user_input
                  goal == \E k \in {"goal", "long-term", "strategy", "plan",
                                    "vision"} : HasWord(k, text)
                  analysis == \E k \in {"report", "analysis", "stats", "trend",
                                        "progress"} : HasWord(k, text)
              IN  /\ goal => workflows[w].primary_agent = "goal_planning_agent"
                  /\ (~goal /\ analysis) =>
                        workflows[w].primary_agent = "analysis_agent"
                  /\ (~goal /\ ~analysis) =>
                        workflows[w].primary_agent = "task_manager_agent"
                  /\ \A r \in RunsAs(w, "primary") :
                        runs[r].agent = workflows[w].primary_agent
    /\ \A v, w \in Workflows :
          (/\ workflows[v].pc # "idle"
           /\ workflows[w].pc # "idle"
           /\ workflows[v].user_input = workflows[w].user_input)
          => workflows[v].primary_agent = workflows[w].primary_agent

C15_Witness ==
    \E w \in Workflows :
        /\ workflows[w].user_input = <<"stats", "goal">>
        /\ workflows[w].primary_agent = "goal_planning_agent"
        /\ workflows[w].pc = "primary_running"

\* C16: the secondary agent is decided on the input and the primary
\* response in this order: "goal" in the input and "task" in the response
\* give the goal-planning agent; otherwise "report" or "analysis" in the
\* response gives the analysis agent; otherwise there is none.  The
\* selected agent is the only secondary run.  (Both texts are compared
\* lower-cased.)
C16_SecondarySelection ==
    \A w \in Workflows :
        Selected(w) =>
            LET goalTask == /\ HasWord("goal", workflows[w].user_input)
                            /\ HasWord("task", workflows[w].primary_response)
                report == \/ HasWord("report", workflows[w].primary_response)
                          \/ HasWord("analysis", workflows[w].primary_response)
            IN  /\ goalTask =>
                      workflows[w].secondary_agent = "goal_planning_agent"
                /\ (~goalTask /\ report) =>
                      workflows[w].secondary_agent = "analysis_agent"
                /\ (~goalTask /\ ~report) =>
                      workflows[w].secondary_agent = "None"
                /\ Cardinality(RunsAs(w, "secondary")) =
                      IF workflows[w].secondary_agent = "None" THEN 0 ELSE 1
                /\ \A r \in RunsAs(w, "secondary") :
                      runs[r].agent = workflows[w].secondary_agent

C16_Witness ==
    \E w \in Workflows :
        /\ workflows[w].pc = "done"
        /\ workflows[w].user_input = <<"Goal">>
        /\ workflows[w].primary_response = <<"Task", "report">>
        /\ workflows[w].secondary_agent = "goal_planning_agent"

\* C17 as stated: when the input contains "goal" and the primary response
\* does not contain "task", no secondary agent executes.
C17_NoSecondary ==
    \A w \in Workflows :
        (/\ Selected(w)
         /\ HasWord("goal", workflows[w].user_input)
         /\ ~HasWord("task", workflows[w].primary_response))
        => RunsAs(w, "secondary") = {}

\* C17, amended: when the input contains "goal" and the primary response
\* does not contain "task", the goal-planning agent does not execute as
\* secondary; the analysis agent does when the response contains "report"
\* or "analysis", and only then does any secondary execute.
C17_NoGoalSecondary ==
    \A w \in Workflows :
        (/\ Selected(w)
         /\ HasWord("goal", workflows[w].user_input)
         /\ ~HasWord("task", workflows[w].primary_response))
        => IF \/ HasWord("report", workflows[w].primary_response)
              \/ HasWord("analysis", workflows[w].primary_response)
           THEN \E r \in RunsAs(w, "secondary") :
                   /\ runs[r].agent = "analysis_agent"
                   /\ RunsAs(w, "secondary") = {r}
           ELSE RunsAs(w, "secondary") = {}

C17_Witness ==
    \E w \in Workflows :
        /\ workflows[w].pc = "done"
        /\ HasWord("goal", workflows[w].user_input)
        /\ workflows[w].primary_response = <<"Analysis">>
        /\ workflows[w].secondary_agent = "analysis_agent"

\* C18 as stated: when the primary response contains "report" and the
\* primary agent is not the analysis agent, the analysis agent executes as
\* the secondary agent.
C18_AnalysisSecondary ==
    \A w \in Workflows :
        (/\ Selected(w)
         /\ HasWord("report", workflows[w].primary_response)
         /\ workflows[w].primary_agent # "analysis_agent")
        => \E r \in RunsAs(w, "secondary") : runs[r].agent = "analysis_agent"

\* C18, amended: when the primary response contains "report" and the
\* primary agent is not the analysis agent, the analysis agent executes as
\* the secondary agent unless the input contains "goal" and the response
\* contains "task"; then the goal-planning agent executes as the secondary
\* agent instead.
C18_AnalysisUnlessGoalTask ==
    \A w \in Workflows :
        (/\ Selected(w)
         /\ HasWord("report", workflows[w].primary_response)
         /\ workflows[w].primary_agent # "analysis_agent")
        => \E r \in RunsAs(w, "secondary") :
              runs[r].agent =
                  IF /\ HasWord("goal", workflows[w].user_input)
                     /\ HasWord("task", workflows[w].primary_response)
                  THEN "goal_planning_agent"
                  ELSE "analysis_agent"

C18_Witness ==
    \E w \in Workflows :
        /\ workflows[w].pc = "done"
        /\ workflows[w].primary_agent = "task_manager_agent"
        /\ workflows[w].primary_response = <<"Task", "report">>
        /\ \E r \in RunsAs(w, "secondary") :
              /\ runs[r].agent = "analysis_agent"
              /\ runs[r].outcome.kind = "final"

\* C19: the result of a workflow is the primary response alone when no
\* secondary was selected, and otherwise the primary response, the
\* separator, the secondary response, in that order; the secondary run is
\* given the original input, not the primary's response.
C19_Result ==
    \A w \in Workflows :
        /\ \A r \in RunsAs(w, "secondary") :
              runs[r].message = workflows[w].user_input
        /\ workflows[w].pc = "done" =>
              workflows[w].result =
                  IF workflows[w].secondary_agent = "None"
                  THEN workflows[w].primary_response
                  ELSE workflows[w].primary_response \o <<"---">>
                           \o workflows[w].secondary_response

C19_Witness ==
    \E w \in Workflows :
        /\ workflows[w].pc = "done"
        /\ workflows[w].user_input = <<"hello">>
        /\ workflows[w].result = <<"Analysis", "---", "done">>
        /\ \E r \in RunsAs(w, "secondary") : runs[r].message = <<"hello">>

\* C20: every run of an agent that has ended has logged an agent_call event
\* for that agent with the length of its input and its duration, whether
\* the executor succeeded or failed.
C20_AgentCallLogged ==
    \A r \in DOMAIN runs :
        runs[r].outcome.kind # "pending" =>
            \E i \in DOMAIN events :
                /\ events[i].action = "agent_execution"
                /\ events[i].event_type = "agent_call"
                /\ events[i].agent_name = runs[r].agent
                /\ events[i].message_id.run = r
                /\ events[i].message_id.input_length = TextLen(runs[r].message)
                /\ events[i].message_id.duration_ms = "elapsed"

\* The store operations that have returned, by the process that made them.
Returned(p, op) == calls[p].pc = "idle" /\ calls[p].op = op

\* C21: the load-modify-save cycle is not atomic.  A save replaces the file
\* by what its own call built from what it had loaded, whatever was saved
\* in between; so when two add_task calls have loaded the same content and
\* both have saved and returned success, the store holds the loaded tasks
\* and the task of one of the two calls only.
C21_LostUpdate ==
    /\ [][\A p \in Processes :
             (calls[p].pc = "saving" /\ calls'[p].pc = "idle"
                  /\ calls'[p].saved)
             => /\ db'.tasks = calls[p].out.data.tasks
                /\ calls'[p].reply.status = "success"]_vars
    /\ [](\A p, q \in Processes :
            (/\ p # q
             /\ Returned(p, "add_task") /\ Returned(q, "add_task")
             /\ calls[p].saved /\ calls[q].saved
             /\ calls[p].loaded = calls[q].loaded
             /\ calls[p].file = calls[q].file)
            => /\ calls[p].reply.status = "success"
               /\ calls[q].reply.status = "success"
               /\ db.tasks \in {calls[p].out.data.tasks,
                                calls[q].out.data.tasks}
               /\ Len(db.tasks) = Len(calls[p].loaded.tasks) + 1)

C21_Witness ==
    /\ Returned("web_app", "add_task") /\ Returned("cli", "add_task")
    /\ calls["web_app"].reply.status = "success" /\ calls["web_app"].saved
    /\ calls["cli"].reply.status = "success" /\ calls["cli"].saved
    /\ calls["web_app"].args.title = "Walk"
    /\ calls["cli"].args.title = "Buy milk"
    /\ \E i \in DOMAIN db.tasks : db.tasks[i].title = "Buy milk"
    /\ \A i \in DOMAIN db.tasks : db.tasks[i].title # "Walk"

\* The tasks of a list that a new task with this title and due date would
\* duplicate: same title, ignoring case, and exactly the same due date.
SameTitleAndDue(tasks, title, due_date) ==
    {i \in DOMAIN tasks :
        /\ LowerTitle(tasks[i].title) = LowerTitle(title)
        /\ tasks[i].due_date = due_date}

\* C22: an add_task call whose title equals, ignoring case, the title of a
\* task of the store that has exactly the same due date returns status
\* "duplicate" with that task and its id and leaves the store unchanged;
\* any other add_task call returns status "success" and the store is the
\* former store with one new task, which has the arguments of the call.
C22_Dedup ==
    \A p \in Processes :
        Returned(p, "add_task") =>
            LET c == calls[p]
                dup == SameTitleAndDue(c.file.tasks, c.args.title,
                                       c.args.due_date)
            IN  IF dup # {}
                THEN /\ c.reply.status = "duplicate"
                     /\ \E i \in dup :
                           /\ c.reply.task = c.file.tasks[i]
                           /\ c.reply.message =
                                 <<"task_exists", c.file.tasks[i].id>>
                     /\ db = c.file
                ELSE /\ c.reply.status = "success"
                     /\ db.tasks = Append(c.file.tasks, c.reply.task)
                     /\ c.reply.task.title = c.args.title
                     /\ c.reply.task.due_date = c.args.due_date
                     /\ \A i \in DOMAIN c.file.tasks :
                           c.file.tasks[i].id # c.reply.task.id

\* C23: a store operation during which the file could not be read or could
\* not be written has returned status "error".
C23_ErrorEnvelope ==
    \A p \in Processes :
        (/\ calls[p].pc = "idle"
         /\ calls[p].op \in {"add_task", "update_task", "update_task_status",
                             "delete_task", "add_subtasks",
                             "mark_subtask_done", "save_long_term_goal"}
         /\ (calls[p].load_failed \/ calls[p].save_failed))
        => calls[p].reply.status = "error"

\* The place of a due date in the order of C24: earlier dates first, no
\* due date last.
DueOrder(due_date) ==
    CASE due_date = "2024-01-01" -> 1
      [] due_date = "2024-01-02" -> 2
      [] due_date = "2024-01-03T09:00:00+00:00" -> 3
      [] OTHER -> 4

\* The rank of a priority in the order of C24.
RankOrder(priority) ==
    CASE priority = "high" -> 1
      [] priority = "medium" -> 2
      [] priority = "low" -> 3
      [] OTHER -> 4

\* C24: a list_tasks call returns status "success" with exactly the tasks
\* of the store that match the filter (all of them for "all"), ordered by
\* due date, tasks without due date last, then by priority rank, then by
\* id; and it leaves the store unchanged.
C24_ListSorted ==
    \A p \in Processes :
        Returned(p, "list_tasks") =>
            LET c == calls[p]
                matching == {i \in DOMAIN c.file.tasks :
                                \/ c.args.status = "all"
                                \/ c.file.tasks[i].status = c.args.status}
            IN  /\ db = c.file
                /\ c.reply.status = "success"
                /\ Len(c.reply.tasks) = Cardinality(matching)
                /\ \A i \in matching :
                      \E k \in DOMAIN c.reply.tasks :
                          c.reply.tasks[k] = c.file.tasks[i]
                /\ \A k, l \in DOMAIN c.reply.tasks :
                      k < l =>
                          LET a == c.reply.tasks[k]
                              b == c.reply.tasks[l]
                          IN  \/ DueOrder(a.due_date) < DueOrder(b.due_date)
                              \/ /\ DueOrder(a.due_date) = DueOrder(b.due_date)
                                 /\ RankOrder(a.priority) < RankOrder(b.priority)
                              \/ /\ DueOrder(a.due_date) = DueOrder(b.due_date)
                                 /\ RankOrder(a.priority) = RankOrder(b.priority)
                                 /\ a.id < b.id

\* C25: every task of the store, and of what is about to be saved, has
\* status pending, in_progress or done; add_task creates its task as
\* pending; update_task_status with another value returns status "error"
\* without saving; and a save of any operation leaves every task it keeps
\* with the status it had, but for the task update_task_status was called
\* on.
C25_StatusDomain ==
    /\ [](\A i \in DOMAIN db.tasks :
             db.tasks[i].status \in {"pending", "in_progress", "done"})
    /\ [](\A p \in Processes :
            /\ (Returned(p, "add_task") /\ calls[p].reply.status = "success")
                  => calls[p].reply.task.status = "pending"
            /\ (/\ calls[p].op = "update_task_status"
                /\ calls[p].args.status \notin {"pending", "in_progress", "done"})
                  => /\ calls[p].pc = "idle"
                     /\ calls[p].reply.status = "error"
                     /\ db = calls[p].file)
    /\ [][\A p \in Processes :
             (calls[p].pc = "saving" /\ calls'[p].pc = "idle") =>
                 \A i \in DOMAIN db'.tasks :
                     LET t == db'.tasks[i]
                     IN  \/ /\ calls[p].op = "add_task"
                            /\ t = calls'[p].reply.task
                            /\ t.status = "pending"
                         \/ \E j \in DOMAIN db.tasks :
                               /\ db.tasks[j].id = t.id
                               /\ \/ db.tasks[j].status = t.status
                                  \/ /\ calls[p].op = "update_task_status"
                                     /\ t.id = calls[p].args.task_id
                                     /\ t.status = calls[p].args.status]_vars

C25_Witness ==
    /\ Returned(MainProcess, "update_task_status")
    /\ calls[MainProcess].saved
    /\ Len(db.tasks) = 1
    /\ db.tasks[1].title = "Walk"
    /\ calls[MainProcess].file.tasks[1].status = "pending"
    /\ db.tasks[1].status = "done"

\* The fields update_task can be given.
UpdatableFields ==
    {"title", "due_date", "priority", "context", "reminder_time"}

\* C26: after update_task on an id of the store, the store has the same
\* goals and the same tasks in the same places but for the task with that
\* id; that task has its id, status, created_at and subtasks and every
\* field that was not provided as before, and every provided field has its
\* former or its given value: the given one, with updated_at set, when the
\* call saved.
C26_UpdateFrame ==
    \A p \in Processes :
        (Returned(p, "update_task")
            /\ FindTask(calls[p].file.tasks, calls[p].args.task_id) # 0)
        => LET c == calls[p]
               i == FindTask(c.file.tasks, c.args.task_id)
               before == c.file.tasks[i]
               after == db.tasks[i]
           IN  /\ db.goals = c.file.goals
               /\ Len(db.tasks) = Len(c.file.tasks)
               /\ \A j \in DOMAIN db.tasks :
                     j # i => db.tasks[j] = c.file.tasks[j]
               /\ \A f \in {"id", "status", "created_at", "subtasks"} :
                     after[f] = before[f]
               /\ \A f \in UpdatableFields :
                     /\ c.args[f] = None => after[f] = before[f]
                     /\ after[f] \in {before[f], c.args[f]}
                     /\ (c.saved /\ c.args[f] # None) => after[f] = c.args[f]
               /\ c.saved => /\ after.updated_at = NowIso
                             /\ c.reply.status = "success"
                             /\ c.reply.task = after
               /\ ~c.saved => after = before

C26_Witness ==
    /\ Returned(MainProcess, "update_task")
    /\ calls[MainProcess].saved
    /\ calls[MainProcess].args.task_id = 1
    /\ calls[MainProcess].args.priority = "high"
    /\ Len(db.tasks) = 4
    /\ db.tasks[1].priority = "high"
    /\ db.tasks[1].due_date = "2024-01-01"
    /\ db.tasks[1].title = "Buy milk"
    /\ db.tasks[1].status = "done"

\* C27: update_task, update_task_status, delete_task, add_subtasks and
\* mark_subtask_done called with an id that is not in the store, and
\* mark_subtask_done called with an index that is not one of 0..len-1,
\* negative ones included, never get to save: they return status "error"
\* and the store is as it was.
C27_NotFound ==
    \A p \in Processes :
        LET c == calls[p]
        IN  (/\ c.op \in {"update_task", "update_task_status", "delete_task",
                          "add_subtasks", "mark_subtask_done"}
             /\ \/ FindTask(c.file.tasks, c.args.task_id) = 0
                \/ /\ c.op = "mark_subtask_done"
                   /\ c.args.subtask_index \notin
                         0 .. (Len(c.file.tasks[FindTask(c.file.tasks,
                                       c.args.task_id)].subtasks) - 1))
            => /\ c.pc = "idle"
               /\ c.reply.status = "error"
               /\ db = c.file

C27_Witness ==
    /\ Returned(MainProcess, "mark_subtask_done")
    /\ ~calls[MainProcess].load_failed
    /\ calls[MainProcess].args.task_id = 1
    /\ calls[MainProcess].args.subtask_index = -1
    /\ calls[MainProcess].file.tasks # <<>>
    /\ Len(calls[MainProcess].file.tasks[1].subtasks) = 1
    /\ calls[MainProcess].reply.status = "error"
    /\ db = calls[MainProcess].file

\* The outcome events of message m: one set per outcome.
OutcomesOf(m) ==
    [processed |-> EventsOf("message_processed", m),
     failed    |-> EventsOf("message_processing_error", m),
     not_found |-> EventsOf("agent_not_found", m)]

NumOutcomes(m) ==
    Cardinality(OutcomesOf(m).processed) + Cardinality(OutcomesOf(m).failed)
        + Cardinality(OutcomesOf(m).not_found)

\* C30: a message taken from the queue has no outcome event while its
\* handler runs and exactly one once _process_message has ended; a message
\* not yet taken has none. The one event is message_processed when a handler
\* was registered and returned, message_processing_error when it was
\* registered and raised, agent_not_found when none was registered; and a
\* message has a message_processed event exactly if its delivered flag is
\* true.
C30_OneOutcome ==
    \A m \in DOMAIN messages :
        LET o        == OutcomesOf(m)
            taken    == {i \in DOMAIN dispatched : dispatched[i].msg = m}
            running  == \E p \in Procs : pc[p] = "handler" /\ cur[p] = m
        IN  /\ NumOutcomes(m) = IF taken # {} /\ ~running THEN 1 ELSE 0
            /\ o.processed # {} <=> messages[m].delivered
            /\ o.processed # {} =>
                  /\ m \notin failedMsgs
                  /\ \A i \in taken : dispatched[i].handler # "None"
                  /\ \A k \in o.processed :
                        events[k].event_type = "a2a_communication"
            /\ o.failed # {} <=> m \in failedMsgs
            /\ o.failed # {} =>
                  /\ \A i \in taken : dispatched[i].handler # "None"
                  /\ \A k \in o.failed : events[k].event_type = "error"
            /\ o.not_found # {} <=>
                  \E i \in taken : dispatched[i].handler = "None"
            /\ \A k \in o.not_found : events[k].event_type = "error"

\* The three outcomes side by side: one message processed, another dropped
\* for want of a handler, or failed, while none is in a handler.
C30_Witness ==
    /\ \A p \in Procs : pc[p] # "handler"
    /\ \E m, n \in DOMAIN messages :
          /\ OutcomesOf(m).processed # {}
          /\ NumOutcomes(m) = 1
          /\ OutcomesOf(n).not_found # {}
          /\ NumOutcomes(n) = 1
    /\ message_queue = <<>>

\* What the filters of a get_events call accept: the name filter counts as
\* given when it is a non-empty name, the type filter when it is a type.
Accepted(e, agent_name, event_type) ==
    /\ Truthy(agent_name) => e.agent_name = agent_name
    /\ event_type # None => e.event_type = event_type

\* The k-th smallest member of a set of positions.
Kth(positions, k) ==
    CHOOSE i \in positions : Cardinality({j \in positions : j < i}) = k - 1

\* C28: the reply of get_events holds exactly the events of the log that
\* both filters accept (a filter that is not given accepts every event),
\* each once and in the order of the log, so it is empty when no event is
\* accepted; and the call leaves the log as it was.
C28_GetEvents ==
    /\ [](observed.op = "get_events" =>
            LET log  == observed.log
                r    == observed.result
                hits == {i \in DOMAIN log :
                            Accepted(log[i], observed.args.agent_name,
                                     observed.args.event_type)}
            IN  /\ Len(r) = Cardinality(hits)
                /\ \A k \in DOMAIN r : r[k] = log[Kth(hits, k)]
                /\ hits = {} => r = <<>>)
    /\ [][(observed.op = "none" /\ observed'.op = "get_events")
            => /\ events' = events
               /\ observed'.log = events]_vars

\* Both filters at work on a log of three kinds of events: some events pass,
\* others are held back by the name, the first of the log among them.
C28_Witness ==
    /\ observed.op = "get_events"
    /\ observed.args = [agent_name |-> "System",
                        event_type |-> "tool_execution"]
    /\ Len(observed.result) >= 2
    /\ Len(observed.result) + 2 <= Len(observed.log)
    /\ observed.log[1].agent_name = "WebRunner"
    /\ \E i \in DOMAIN observed.log :
          observed.log[i].event_type = "a2a_communication"

\* The fields of a metrics summary that are counts of one type of event.
CountFields(r) == DOMAIN r \ {"total_events", "uptime", "recent_events"}

RECURSIVE SumFields(_, _)
SumFields(r, fields) ==
    IF fields = {} THEN 0
    ELSE LET f == CHOOSE f \in fields : TRUE
         IN  r[f] + SumFields(r, fields \ {f})

\* C29 as stated: a metrics summary (get_system_metrics, GET /api/metrics)
\* has one count for each of the five event types, the counts add up to
\* total_events, which is the length of the log, and recent_events is the
\* last min(10, n) events of the log in the order of the log.
C29_MetricsSummary ==
    observed.op \in {"get_system_metrics", "get_metrics_endpoint"} =>
        LET log == observed.log
            r   == observed.result
            n   == Len(log)
        IN  /\ r.total_events = n
            /\ Cardinality(CountFields(r)) = Cardinality(EventTypes)
            /\ SumFields(r, CountFields(r)) = r.total_events
            /\ "recent_events" \in DOMAIN r
            /\ r.recent_events =
                  [i \in 1..Min(10, n) |->
                      RecentEvent(log[n - Min(10, n) + i])]

\* The events that the runs of an agent log, with the run they belong to.
RunEventsOf(r) ==
    {i \in DOMAIN events :
        /\ events[i].action \in {"agent_execution", "execution_failed"}
        /\ events[i].message_id.run = r}

\* C31: a workflow has no terminal Orchestrator event before it has ended
\* and exactly one from then on, workflow_complete or workflow_failed, not
\* both; a workflow_complete event comes after the workflow_start event of
\* its workflow and after the event of each of its runs, under the names of
\* the agents that ran; its agents_involved has two entries, the primary
\* agent and the secondary agent, "none" when no secondary ran.
C31_TerminalEvent ==
    \A w \in Workflows :
        LET complete == WorkflowEvents("workflow_complete", w)
            failed   == WorkflowEvents("workflow_failed", w)
            start    == WorkflowEvents("workflow_start", w)
        IN  /\ Cardinality(complete) + Cardinality(failed) =
                  IF workflows[w].pc = "done" THEN 1 ELSE 0
            /\ Cardinality(start) = IF workflows[w].pc = "idle" THEN 0 ELSE 1
            /\ \A c \in complete :
                  /\ events[c].agent_name = "Orchestrator"
                  /\ \E s \in start : s < c
                  /\ \A r \in RunsOf(w) :
                        \E i \in RunEventsOf(r) :
                            i < c /\ events[i].agent_name = runs[r].agent
                  /\ Len(events[c].message_id.agents_involved) = 2
                  /\ events[c].message_id.agents_involved[1] =
                        workflows[w].primary_agent
                  /\ events[c].message_id.agents_involved[2] =
                        IF RunsAs(w, "secondary") = {} THEN "none"
                        ELSE workflows[w].secondary_agent
            /\ \A f \in failed : events[f].agent_name = "Orchestrator"

\* Both shapes of the list: a workflow that ended without a secondary run.
C31_Witness ==
    \E w \in Workflows :
        /\ workflows[w].pc = "done"
        /\ RunsAs(w, "secondary") = {}
        /\ \E c \in WorkflowEvents("workflow_complete", w) :
              /\ events[c].message_id.agents_involved =
                    <<"task_manager_agent", "none">>
              /\ c = Len(events)
              /\ c = 3

AnalysisFailed(w) ==
    /\ workflows[w].primary_agent = "analysis_agent"
    /\ \E p \in RunsAs(w, "primary") : runs[p].outcome.kind = "failed"

\* C33: when the executor of the analysis agent fails in the primary run,
\* the workflow goes on: its primary response is the fallback text with the
\* name analysis_agent in it, the analysis agent is selected as secondary
\* and run again on the same input, no failure leaves the call and no
\* workflow_failed is logged; and, every executor call ending, the workflow
\* ends, with a workflow_complete event that names the analysis agent twice.
C33_AnalysisRetry ==
    /\ [](\A w \in Workflows :
            AnalysisFailed(w) =>
                /\ workflows[w].pc \in {"secondary_running", "done"}
                /\ \E p \in RunsAs(w, "primary") :
                      workflows[w].primary_response =
                          <<"Agent", "analysis_agent", "encountered", "an",
                            "error:">> \o runs[p].outcome.text
                /\ workflows[w].secondary_agent = "analysis_agent"
                /\ \E q \in RunsAs(w, "secondary") :
                      /\ runs[q].agent = "analysis_agent"
                      /\ runs[q].message = workflows[w].user_input
                      /\ \A p \in RunsAs(w, "primary") :
                            p < q /\ runs[p].message = runs[q].message
                /\ WorkflowEvents("workflow_failed", w) = {}
                /\ workflows[w].pc = "done" <=>
                      WorkflowEvents("workflow_complete", w) # {})
    /\ []<>(\A w \in Workflows :
              AnalysisFailed(w) =>
                  /\ workflows[w].pc = "done"
                  /\ \E c \in WorkflowEvents("workflow_complete", w) :
                        events[c].message_id.agents_involved =
                            <<"analysis_agent", "analysis_agent">>)

\* The analysis agent failed on "REPORT", ran again, answered, and the
\* workflow is complete.
C33_Witness ==
    \E w \in Workflows :
        /\ workflows[w].pc = "done"
        /\ workflows[w].user_input = <<"REPORT">>
        /\ AnalysisFailed(w)
        /\ \E q \in RunsAs(w, "secondary") :
              /\ runs[q].agent = "analysis_agent"
              /\ runs[q].outcome = [kind |-> "final", text |-> <<"done">>]
        /\ WorkflowEvents("workflow_complete", w) # {}

\* C34: every message has one message_sent event, logged in the step that
\* queued it, and each outcome event of the message (message_processed,
\* message_processing_error, agent_not_found) stands after it in the log,
\* however the sends and the steps of the processing loops interleave.
C34_SentBeforeOutcome ==
    \A m \in DOMAIN messages :
        LET sent == EventsOf("message_sent", m)
            outcome == OutcomesOf(m).processed \cup OutcomesOf(m).failed
                          \cup OutcomesOf(m).not_found
        IN  /\ Cardinality(sent) = 1
            /\ \A s \in sent, k \in outcome : s < k
            /\ \A s \in sent :
                  /\ events[s].event_type = "a2a_communication"
                  /\ events[s].agent_name = messages[m].from_agent

\* Two messages sent before the first is taken: the second message_sent
\* stands between the first message's two events, and both have outcomes.
C34_Witness ==
    /\ Len(messages) = 2
    /\ NumOutcomes(1) = 1 /\ NumOutcomes(2) = 1
    /\ \E s1 \in EventsOf("message_sent", 1), s2 \in EventsOf("message_sent", 2),
          k1 \in OutcomesOf(1).processed \cup OutcomesOf(1).failed
                    \cup OutcomesOf(1).not_found :
          s1 < s2 /\ s2 < k1

\* C35: stop() never being called, no processing loop ends, and once a
\* processing loop has been started every message that has been sent is
\* eventually taken from the queue and has its one outcome event, every
\* ready task being run and every handler invocation ending.
C35_EventuallyProcessed ==
    /\ [](\A p \in Procs : pc[p] # "done")
    /\ \A m \in 1..MaxMsgs :
          (m \in DOMAIN messages /\ \E p \in Procs : pc[p] # "none")
              ~> (/\ \E i \in DOMAIN dispatched : dispatched[i].msg = m
                  /\ m \notin Range(message_queue)
                  /\ NumOutcomes(m) = 1)

\* Two messages sent while the only loop was inside a handler or not yet
\* started have both been processed, and the loop is waiting for more.
C35_Witness ==
    /\ Len(messages) = MaxMsgs
    /\ \A m \in DOMAIN messages : NumOutcomes(m) = 1
    /\ message_queue = <<>>
    /\ is_running
    /\ pc[1] = "waiting"
    /\ \A p \in Procs : p # 1 => pc[p] = "none"
    /\ \E s \in EventsOf("message_sent", MaxMsgs) : s = MaxMsgs

\* The runs of a workflow call, in the order they began.
RunSeq(w) == SelectSeq(runs, LAMBDA r : r.wf = w)

\* The locals and the runs of the other calls.
Others(w) ==
    <<[v \in DOMAIN workflows \ {w} |-> workflows[v]],
      SelectSeq(runs, LAMBDA r : r.wf # w)>>

\* C37: whatever the interleaving with other execute_workflow calls, a call
\* runs the agents and returns the text that the same call made alone would
\* for its input and the outcomes of its own executors; and a step of one
\* call changes neither the locals nor the runs of another call: what the
\* calls share is the event log (and the count of its entries).
C37_NonInterference ==
    /\ [](\A w \in DOMAIN workflows :
            workflows[w].pc # "idle" =>
                LET own == RunSeq(w)
                    first == own[1].outcome
                    second == IF Len(own) >= 2 THEN own[2].outcome
                                               ELSE own[1].outcome
                    solo == SoloWorkflow(workflows[w].user_input, first, second)
                IN  /\ own[1].agent = solo.agents[1]
                    /\ first.kind # "pending" =>
                          /\ Len(own) = Len(solo.agents)
                          /\ \A i \in DOMAIN own : own[i].agent = solo.agents[i]
                    /\ workflows[w].pc = "done" =>
                          workflows[w].result = solo.result)
    /\ [][\A w \in DOMAIN workflows :
             workflows'[w] # workflows[w] => Others(w)' = Others(w)]_vars

\* Two calls in flight together, the second made while the first was in its
\* primary run and ended before it: same agent for each, different inputs.
C37_Witness ==
    /\ workflows[1].pc = "done" /\ workflows[2].pc = "done"
    /\ workflows[1].user_input = <<"hello">>
    /\ workflows[2].user_input = <<"Goal">>
    /\ workflows[1].primary_response = <<"task">>
    /\ workflows[2].primary_response = <<"task">>
    /\ workflows[1].secondary_agent = "None"
    /\ workflows[2].secondary_agent = "goal_planning_agent"
    /\ \E c1 \in WorkflowEvents("workflow_complete", 1),
          c2 \in WorkflowEvents("workflow_complete", 2),
          s2 \in WorkflowEvents("workflow_start", 2) : s2 < c1 /\ c2 < c1
    /\ runs[2].wf = 2

\* C38 as stated: the ids of the tasks of the store are positive integers,
\* no two tasks have the same id, and the task a successful add_task call
\* has just saved has an id greater than the id of every task that was in
\* the store when it was called.
C38_FreshIds ==
    /\ [](\A i, j \in DOMAIN db.tasks :
            /\ db.tasks[i].id \in Nat \ {0}
            /\ db.tasks[i].id = db.tasks[j].id => i = j)
    /\ [][\A p \in Processes :
             (/\ calls[p].pc = "saving" /\ calls'[p].pc = "idle"
              /\ calls[p].op = "add_task"
              /\ calls'[p].saved)
             => \A i \in DOMAIN db.tasks :
                   calls'[p].reply.task.id > db.tasks[i].id]_vars

\* The dedup keys of a list of tasks.
DedupKey(t) == <<LowerTitle(t.title), t.due_date>>

\* C39: update_task not being called, no two tasks of the store have the
\* same lower-cased title and the same due date; an add_task call on a title
\* and due date the store holds, whatever the case of the letters, saves
\* nothing.
C39_UniqueKeys ==
    /\ \A i, j \in DOMAIN db.tasks :
          DedupKey(db.tasks[i]) = DedupKey(db.tasks[j]) => i = j
    /\ \A p \in Processes :
          (/\ calls[p].op = "add_task"
           /\ \E i \in DOMAIN calls[p].loaded.tasks :
                 DedupKey(calls[p].loaded.tasks[i]) =
                     <<LowerTitle(calls[p].args.title), calls[p].args.due_date>>)
          => /\ calls[p].pc = "idle"
             /\ calls[p].reply.status = "duplicate"
             /\ db = calls[p].file

\* A task was added beside one with the same title and another due date,
\* and a call with the title in lower case and the same due date was
\* refused.
C39_Witness ==
    /\ Returned(MainProcess, "add_task")
    /\ calls[MainProcess].reply.status = "duplicate"
    /\ calls[MainProcess].args.title = "buy milk"
    /\ Len(db.tasks) = 5
    /\ db.tasks[5].title = "Buy milk"
    /\ db.tasks[1].title = "Buy milk"
    /\ db.tasks[5].due_date # db.tasks[1].due_date


\* The months counted from year 0, so that the month before is one less.
MonthIndex(year, month) == 12 * year + month

\* Whether the due date is a date of the calendar month before `now`.
DueLastMonth(t, now) ==
    LET due == FromIsoFormat(t.due_date)
    IN  /\ due.ok
        /\ MonthIndex(due.year, due.month) =
               MonthIndex(now.year, now.month) - 1

\* A call of delete_previous_month_tasks that has returned.
CleanupReturned(p) ==
    /\ calls[p].pc = "idle"
    /\ calls[p].op = "delete_previous_month_tasks"

\* C40: when delete_previous_month_tasks has returned, the store holds the
\* tasks it held before except exactly those whose due date parses to a date
\* of the calendar month before the current one (December of the year before
\* when the current month is January); tasks without a due date or with one
\* that does not parse are kept; deleted_count is the number of tasks removed.
C40_RemovesPreviousMonth ==
    \A p \in Processes :
        CleanupReturned(p) =>
            LET before == calls[p].file.tasks
                now == calls[p].args.now
            IN  /\ db.tasks =
                       SelectSeq(before, LAMBDA t : ~DueLastMonth(t, now))
                /\ calls[p].reply.status = "success"
                /\ calls[p].reply.deleted_count =
                       Len(before) - Len(db.tasks)

\* The same statement for the calls whose read and write of the file both
\* worked.
C40_WhenFileWorks ==
    \A p \in Processes :
        (CleanupReturned(p) /\ ~calls[p].load_failed /\ calls[p].saved) =>
            LET before == calls[p].file.tasks
                now == calls[p].args.now
            IN  /\ db.tasks =
                       SelectSeq(before, LAMBDA t : ~DueLastMonth(t, now))
                /\ calls[p].reply.deleted_count =
                       Len(before) - Len(db.tasks)

\* A January call has removed a task due in December of the year before and
\* kept tasks without a parseable due date.
C40_JanuaryRemoved ==
    \E p \in Processes :
        /\ CleanupReturned(p)
        /\ ~calls[p].load_failed
        /\ calls[p].saved
        /\ calls[p].args.now.month = 1
        /\ calls[p].reply.deleted_count > 0
        /\ \E i \in DOMAIN db.tasks : ~FromIsoFormat(db.tasks[i].due_date).ok


\* The message types the three handlers reply with.
ReplyTypes ==
    {"goal_decomposed", "goals_created_from_patterns", "productivity_report"}

\* The messages the handler of message m sent.
RepliesTo(m) == {r \in DOMAIN messages : messages[r].cause = m}

\* The messages the callers of the bus sent.
External == RepliesTo(0)

\* Every message that was sent has been taken from the queue and its
\* processing has ended.
ChainsSettled ==
    /\ message_queue = <<>>
    /\ \A p \in Procs : cur[p] = 0
    /\ \A m \in DOMAIN messages :
          \E i \in DOMAIN events :
              /\ events[i].action \in {"message_processed",
                                       "message_processing_error",
                                       "agent_not_found"}
              /\ events[i].message_id = m

\* C36: with the three registered handlers, the handler of a message sends
\* at most one reply, addressed to the message's from_agent and of a reply
\* type; a reply gets no reply; k messages sent by callers make at most 2k
\* messages; a handler that was invoked can always run to its end, its send
\* never waits for room in the queue; and, once a processing loop has been
\* started, the queue empties with every message processed, again and again.
C36_ChainsTerminate ==
    /\ [](\A m \in DOMAIN messages :
             /\ Cardinality(RepliesTo(m)) <= 1
             /\ \A r \in RepliesTo(m) :
                   /\ messages[r].to_agent = messages[m].from_agent
                   /\ messages[r].from_agent = messages[m].to_agent
                   /\ messages[r].message_type \in ReplyTypes
                   /\ messages[m].cause = 0)
    /\ [](Len(messages) <= 2 * Cardinality(External))
    /\ [](\A p \in Procs :
             pc[p] = "handler" =>
                 ENABLED (\E readable \in BOOLEAN, writable \in BOOLEAN :
                             HandlerRuns(p, readable, writable)))
    /\ (\E p \in Procs : pc[p] # "none") ~> ChainsSettled

\* Two messages of callers have each been answered, the four messages are
\* processed and the queue is empty.
C36_Witness ==
    /\ Cardinality(External) = 2
    /\ Len(messages) = 4
    /\ \A m \in External : RepliesTo(m) # {}
    /\ ChainsSettled

====
